---- MODULE Spec2Model ----
(***************************************************************************)
(* FontGet-Sources: the field-normalisation functions of the translators   *)
(* (ID slugging, category normalisation, weight/style parsing), the        *)
(* per-font transforms and the translator runs, modelled from the Python   *)
(* sources under src/scripts.                                              *)
(*                                                                         *)
(* A Python str is modelled as a sequence of one-character strings, so     *)
(* that lower(), replace(), strip(), split(), regex substitution and       *)
(* substring tests are computed character by character.  The character     *)
(* "U+00C9" stands for the non-ASCII letter E-acute and "U+00E9" for its   *)
(* lowercase form.                                                         *)
(***************************************************************************)
EXTENDS Integers, Sequences, FiniteSets, TLC

VARIABLES
    arg,        \* the argument handed to the function under check, or the
                \* environment of a translator run
    hist,       \* the calls made so far, in order: [fn |-> name, ret |-> result]
    pc,         \* the position of a translator run in main() and translate()
    raw_items,  \* the list the transform loop of the run iterates over
    idx,        \* the 1-based position of the loop in raw_items, 0 before the loop
    font_map,   \* the fonts dict of the run
    warnings,   \* the positions of the items skipped with a warning
    source_data,    \* the structure translate() has returned, if any
    output_file,    \* the content of the output file under sources/
    writes,     \* how many times the output file has been opened for writing
    exit_code   \* the value main() has returned, if any

runvars ==
    <<pc, raw_items, idx, font_map, warnings, source_data, output_file, writes,
      exit_code>>

vars == <<arg, hist, runvars>>

\* An optional value (a dict key that may be missing): <<>> or <<value>>.
None == <<>>

Some(v) == <<v>>

\* the output file as a previous run left it
OldFile == [previous |-> TRUE]

\* no translator run is in progress: the state of the specifications that
\* exercise one function
RunIdle ==
    /\ pc = "idle"
    /\ raw_items = <<>>
    /\ idx = 0
    /\ font_map = <<>>
    /\ warnings = <<>>
    /\ source_data = None
    /\ output_file = OldFile
    /\ writes = 0
    /\ exit_code = None

----------------------------------------------------------------------------
(* Characters and str methods *)

UpperChars ==
    <<"A","B","C","D","E","F","G","H","I","J","K","L","M",
      "N","O","P","Q","R","S","T","U","V","W","X","Y","Z">>

LowerChars ==
    <<"a","b","c","d","e","f","g","h","i","j","k","l","m",
      "n","o","p","q","r","s","t","u","v","w","x","y","z">>

Digits == {"0","1","2","3","4","5","6","7","8","9"}

AsciiLower == {LowerChars[i] : i \in 1..26}

AsciiUpper == {UpperChars[i] : i \in 1..26}

\* str.lower() on one character
ToLower(c) ==
    IF c \in AsciiUpper
    THEN LowerChars[CHOOSE i \in 1..26 : UpperChars[i] = c]
    ELSE IF c = "U+00C9" THEN "U+00E9" ELSE c

\* str.upper() on one character
ToUpper(c) ==
    IF c \in AsciiLower
    THEN UpperChars[CHOOSE i \in 1..26 : LowerChars[i] = c]
    ELSE IF c = "U+00E9" THEN "U+00C9" ELSE c

\* str.lower()
Lower(s) == [i \in 1..Len(s) |-> ToLower(s[i])]

\* str.replace(old, new) for one-character old and new
ReplaceChar(s, old, new) == [i \in 1..Len(s) |-> IF s[i] = old THEN new ELSE s[i]]

\* the str `in` operator: k occurs in s as a substring
Contains(s, k) ==
    \E i \in 1..(Len(s) - Len(k) + 1) : SubSeq(s, i, i + Len(k) - 1) = k

\* str.endswith(suffix)
EndsWith(s, suffix) ==
    /\ Len(suffix) <= Len(s)
    /\ SubSeq(s, Len(s) - Len(suffix) + 1, Len(s)) = suffix

\* all strings over alphabet of length at most n
StringsUpTo(alphabet, n) == UNION {[1..k -> alphabet] : k \in 0..n}

----------------------------------------------------------------------------
(* ID slugifier: _clean_id *)

\* the character class [a-z0-9-]
IsSlugChar(c) == c \in AsciiLower \cup Digits \cup {"-"}

\* re.sub(r"[^a-z0-9-]", "-", s)
SubNonSlug(s) == [i \in 1..Len(s) |-> IF IsSlugChar(s[i]) THEN s[i] ELSE "-"]

\* a collapse that rewrites each pair "--" once, left to right, as
\* str.replace("--", "-") does
RECURSIVE ReplacePairsOnce(_)
ReplacePairsOnce(s) ==
    IF Len(s) < 2 THEN s
    ELSE IF s[1] = "-" /\ s[2] = "-"
         THEN <<"-">> \o ReplacePairsOnce(SubSeq(s, 3, Len(s)))
         ELSE <<s[1]>> \o ReplacePairsOnce(Tail(s))

\* re.sub(r"-+", "-", s): every maximal run of hyphens becomes one hyphen
RECURSIVE CollapseHyphens(_)
CollapseHyphens(s) ==
    IF Len(s) < 2 THEN s
    ELSE IF s[1] = "-" /\ s[2] = "-"
         THEN CollapseHyphens(Tail(s))
         ELSE <<s[1]>> \o CollapseHyphens(Tail(s))

\* a strip that leaves the string as it is
KeepHyphens(s) == s

\* str.strip("-")
RECURSIVE StripHyphens(_)
StripHyphens(s) ==
    IF s = <<>> THEN s
    ELSE IF s[1] = "-" THEN StripHyphens(Tail(s))
    ELSE IF s[Len(s)] = "-" THEN StripHyphens(SubSeq(s, 1, Len(s) - 1))
    ELSE s

\* _clean_id(value); the same two statements are inlined in the Google,
\* Font Squirrel and Nerd Fonts translators
clean_id(value) == StripHyphens(CollapseHyphens(SubNonSlug(Lower(value))))

----------------------------------------------------------------------------
(* Slugifier harness: slugify(x), then slugify of the result *)

MaxSlugLen == 5

SlugAlphabet == {"a", "B", "7", "-", " ", "U+00C9"}

SlugInputs == StringsUpTo(SlugAlphabet, MaxSlugLen)

InitSlug ==
    /\ arg \in SlugInputs
    /\ hist = <<>>
    /\ RunIdle

Slugify ==
    /\ hist = <<>>
    /\ hist' = <<[fn |-> "_clean_id", ret |-> clean_id(arg)]>>
    /\ UNCHANGED <<arg, runvars>>

SlugifyAgain ==
    /\ Len(hist) = 1
    /\ hist' = Append(hist, [fn |-> "_clean_id", ret |-> clean_id(hist[1].ret)])
    /\ UNCHANGED <<arg, runvars>>

NextSlug == Slugify \/ SlugifyAgain

SpecSlug == InitSlug /\ [][NextSlug]_vars

\* the pattern ^[a-z0-9]+(-[a-z0-9]+)*$, or the empty string
WellFormedSlug(s) ==
    \/ s = <<>>
    \/ /\ \A i \in 1..Len(s) : s[i] \in AsciiLower \cup Digits \cup {"-"}
       /\ s[1] # "-"
       /\ s[Len(s)] # "-"
       /\ \A i \in 1..(Len(s) - 1) : ~(s[i] = "-" /\ s[i + 1] = "-")

\* C1: slugify is idempotent: slugifying the result of slugify returns that
\* result unchanged, for every input string.
C1_SlugifyIdempotent == Len(hist) = 2 => hist[2].ret = hist[1].ret

\* C1 witness: an input with a run of three replaced characters between two
\* kept ones was slugified twice.
C1_Witness ==
    /\ Len(hist) = 2
    /\ arg = <<"a", " ", "-", "B", "7">>
    /\ hist[1].ret = <<"a", "-", "b", "7">>
    /\ hist[2].ret = <<"a", "-", "b", "7">>

\* C2: slugify returns, for every input, the empty string or non-empty runs
\* of [a-z0-9] separated by single hyphens, with no leading, trailing or
\* doubled hyphen.
C2_SlugWellFormed == \A i \in 1..Len(hist) : WellFormedSlug(hist[i].ret)

\* C2 witness: an input made only of characters outside [a-z0-9-] gave the
\* empty string, and one with leading and trailing separators gave a slug.
C2_Witness ==
    /\ Len(hist) >= 1
    /\ \/ arg = <<" ", "U+00C9", "B">> /\ hist[1].ret = <<>>
       \/ arg = <<"-", " ", "a", " ", "-">> /\ hist[1].ret = <<"a">>

----------------------------------------------------------------------------
(* Normalizer: _normalize_category *)

\* the canonical category names, as strings
\* the category names the translators return
Cat ==
    [Blackletter |-> <<"B","l","a","c","k","l","e","t","t","e","r">>,
     Decorative |-> <<"D","e","c","o","r","a","t","i","v","e">>,
     Display |-> <<"D","i","s","p","l","a","y">>,
     Handwriting |-> <<"H","a","n","d","w","r","i","t","i","n","g">>,
     Monospace |-> <<"M","o","n","o","s","p","a","c","e">>,
     SansSerif |-> <<"S","a","n","s"," ","S","e","r","i","f">>,
     Script |-> <<"S","c","r","i","p","t">>,
     Serif |-> <<"S","e","r","i","f">>,
     SlabSerif |-> <<"S","l","a","b"," ","S","e","r","i","f">>,
     Symbol |-> <<"S","y","m","b","o","l">>,
     Other |-> <<"O","t","h","e","r">>]

\* category_mapping, in insertion order: <<key, value>>.  The dict literal
\* repeats the key "Cursive" with the same value; a dict keeps one entry.
category_mapping ==
    <<
       <<Cat.SansSerif, Cat.SansSerif>>,
       <<Cat.Serif, Cat.Serif>>,
       <<Cat.SlabSerif, Cat.SlabSerif>>,
       <<Cat.Display, Cat.Display>>,
       <<Cat.Monospace, Cat.Monospace>>,
       <<Cat.Script, Cat.Script>>,
       <<Cat.Handwriting, Cat.Handwriting>>,
       <<Cat.Decorative, Cat.Decorative>>,
       <<Cat.Symbol, Cat.Symbol>>,
       <<Cat.Blackletter, Cat.Blackletter>>,
       <<<<"T","y","p","e","w","r","i","t","e","r">>, Cat.Display>>,
       <<<<"N","o","v","e","l","t","y">>, Cat.Decorative>>,
       <<<<"C","o","m","i","c">>, Cat.Decorative>>,
       <<<<"D","i","n","g","b","a","t">>, Cat.Symbol>>,
       <<<<"H","a","n","d","d","r","a","w","n">>, Cat.Handwriting>>,
       <<<<"C","a","l","l","i","g","r","a","p","h","i","c">>, Cat.Script>>,
       <<<<"C","u","r","s","i","v","e">>, Cat.Script>>,
       <<<<"P","r","o","g","r","a","m","m","i","n","g">>, Cat.Monospace>>,
       <<<<"R","e","t","r","o">>, Cat.Decorative>>,
       <<<<"G","r","u","n","g","e">>, Cat.Decorative>>,
       <<<<"P","i","x","e","l">>, Cat.Decorative>>,
       <<<<"S","t","e","n","c","i","l">>, Cat.Decorative>>,
       <<<<"M","o","n","o","s","p","a","c","e","d">>, Cat.Monospace>>
    >>

\* the characters str.strip() and str.split() treat as whitespace
IsSpace(c) == c \in {" ", "\t"}

\* str.strip()
RECURSIVE Strip(_)
Strip(s) ==
    IF s = <<>> THEN s
    ELSE IF IsSpace(s[1]) THEN Strip(Tail(s))
    ELSE IF IsSpace(s[Len(s)]) THEN Strip(SubSeq(s, 1, Len(s) - 1))
    ELSE s

\* str.split(): the maximal runs of non-whitespace characters, in order
RECURSIVE Split(_)
Split(s) ==
    IF s = <<>> THEN <<>>
    ELSE IF IsSpace(s[1]) THEN Split(Tail(s))
    ELSE LET n == IF \E i \in 1..Len(s) : IsSpace(s[i])
                  THEN (CHOOSE i \in 1..Len(s) :
                            /\ IsSpace(s[i])
                            /\ \A j \in 1..(i - 1) : ~IsSpace(s[j])) - 1
                  ELSE Len(s)
         IN  <<SubSeq(s, 1, n)>> \o Split(SubSeq(s, n + 1, Len(s)))

\* a capitalize that uppercases the first character and keeps the rest
UpperFirst(word) ==
    IF word = <<>> THEN word
    ELSE <<ToUpper(word[1])>> \o Tail(word)

\* str.capitalize(): first character uppercased, the rest lowercased
Capitalize(word) ==
    IF word = <<>> THEN word
    ELSE <<ToUpper(word[1])>> \o Lower(Tail(word))

\* " ".join(words)
RECURSIVE JoinSpace(_)
JoinSpace(words) ==
    IF words = <<>> THEN <<>>
    ELSE IF Len(words) = 1 THEN words[1]
    ELSE words[1] \o <<" ">> \o JoinSpace(Tail(words))

\* lines 33-35: cleaned, words, normalized
Normalized(category) ==
    LET cleaned == Strip(ReplaceChar(ReplaceChar(category, "-", " "), "_", " "))
        words   == Split(cleaned)
    IN  JoinSpace([i \in 1..Len(words) |-> Capitalize(words[i])])

\* a blank test that looks only at the length: `if not category`
IsEmptyOnly(category) == category = <<>>

\* line 29: `not category or not category.strip()`
IsBlank(category) == category = <<>> \/ Strip(category) = <<>>

\* _normalize_category(category)
normalize_category(category) ==
    IF IsBlank(category) THEN Cat.Other
    ELSE LET normalized == Normalized(category)
             n == Len(category_mapping)
         IN  IF \E i \in 1..n : category_mapping[i][1] = normalized
             THEN category_mapping[CHOOSE i \in 1..n :
                                       category_mapping[i][1] = normalized][2]
             ELSE IF \E i \in 1..n :
                         Lower(category_mapping[i][1]) = Lower(normalized)
             THEN category_mapping[CHOOSE i \in 1..n :
                      /\ Lower(category_mapping[i][1]) = Lower(normalized)
                      /\ \A j \in 1..(i - 1) :
                            Lower(category_mapping[j][1]) # Lower(normalized)][2]
             ELSE normalized

----------------------------------------------------------------------------
(* Category harness: normalize_category(x) *)

MaxCategoryChunks == 3

\* the pieces the category inputs are concatenated from
CategoryChunks ==
    { <<"s","a","n","s">>, <<"S","e","r","i","f">>, <<"S","L","A","B">>,
      <<"c","u","r","s","i","v","e">>, <<"g","r","a","f","f","i","t","i">>,
      <<"m","O","N","O">>, <<"s","p","a","c","e">>, <<"d">>,
      <<"-">>, <<"_">>, <<" ">>, <<"\t">> }

RECURSIVE Concat(_)
Concat(chunks) ==
    IF chunks = <<>> THEN <<>> ELSE chunks[1] \o Concat(Tail(chunks))

CategoryInputs == {Concat(cs) : cs \in StringsUpTo(CategoryChunks, MaxCategoryChunks)}

InitCategory ==
    /\ arg \in CategoryInputs
    /\ hist = <<>>
    /\ RunIdle

NormalizeCategory ==
    /\ hist = <<>>
    /\ hist' = <<[fn |-> "_normalize_category", ret |-> normalize_category(arg)]>>
    /\ UNCHANGED <<arg, runvars>>

NextCategory == NormalizeCategory

SpecCategory == InitCategory /\ [][NextCategory]_vars

\* a Python str: a finite sequence of characters
IsStr(v) == DOMAIN v = 1..Len(v) /\ \A i \in 1..Len(v) : v[i] \in STRING

\* C3: normalize_category returns a string for every string input, and
\* exactly "Other" for the empty string and for whitespace-only strings.
C3_BlankIsOther ==
    Len(hist) = 1 =>
        /\ IsStr(hist[1].ret)
        /\ (\A i \in 1..Len(arg) : arg[i] \in {" ", "\t"}) => hist[1].ret = Cat.Other

\* C3 witness: a non-empty whitespace-only input was normalised.
C3_Witness ==
    /\ Len(hist) = 1
    /\ arg = <<" ", "\t", " ">>
    /\ hist[1].ret = Cat.Other

\* the separators between the words of a category
IsSeparator(c) == c \in {"-", "_", " ", "\t"}

RECURSIVE LettersOf(_)
LettersOf(s) ==
    IF s = <<>> THEN <<>>
    ELSE IF IsSeparator(s[1]) THEN LettersOf(Tail(s))
    ELSE <<s[1]>> \o LettersOf(Tail(s))

\* t is the title-cased form of s: the words of s, each with an uppercase
\* first letter and lowercase rest, joined by single spaces
TitleCasedFormOf(t, s) ==
    /\ \A i \in 1..Len(t) : t[i] \notin {"-", "_", "\t"}
    /\ t # <<>> => t[1] # " " /\ t[Len(t)] # " "
    /\ \A i \in 1..(Len(t) - 1) : ~(t[i] = " " /\ t[i + 1] = " ")
    /\ \A i \in 1..Len(t) :
          t[i] # " " =>
              IF i = 1 \/ t[i - 1] = " "
              THEN t[i] \notin AsciiLower
              ELSE t[i] \notin AsciiUpper
    /\ Lower(LettersOf(t)) = Lower(LettersOf(s))
    /\ Len(Split(t)) =
          Cardinality({i \in 1..Len(s) :
              ~IsSeparator(s[i]) /\ (i = 1 \/ IsSeparator(s[i - 1]))})

MappingKeys == {category_mapping[i][1] : i \in 1..Len(category_mapping)}

MappingValue(k) ==
    category_mapping[CHOOSE i \in 1..Len(category_mapping) :
                         category_mapping[i][1] = k][2]

\* C4: for a non-blank input the result is the table value of the
\* title-cased form when that form is one of the 10 canonical names or a
\* synonym key, and the title-cased form itself otherwise.
C4_CategoryLookup ==
    (Len(hist) = 1 /\ \E i \in 1..Len(arg) : ~IsSpace(arg[i])) =>
        \E t \in {Normalized(arg)} :
            /\ TitleCasedFormOf(t, arg)
            /\ hist[1].ret = IF t \in MappingKeys THEN MappingValue(t) ELSE t
            /\ arg = <<"s","a","n","s","-","S","e","r","i","f">>
                  => hist[1].ret = Cat.SansSerif
            /\ arg = <<"c","u","r","s","i","v","e">> => hist[1].ret = Cat.Script
            /\ arg = <<"g","r","a","f","f","i","t","i">>
                  => hist[1].ret = <<"G","r","a","f","f","i","t","i">>

\* C4 witness: "sans-Serif" gave "Sans Serif", or an unknown two-word
\* category passed through title-cased.
C4_Witness ==
    /\ Len(hist) = 1
    /\ \/ arg = <<"s","a","n","s","-","S","e","r","i","f">> /\ hist[1].ret = Cat.SansSerif
       \/ arg = <<"S","L","A","B","_","m","O","N","O">>
          /\ hist[1].ret = <<"S","l","a","b"," ","M","o","n","o">>

----------------------------------------------------------------------------
(* Normalizer: _parse_weight_style and _parse_weight_style_from_name *)

\* the keywords of the weight and style tests
Kw ==
    [Thin |-> <<"t","h","i","n">>,
     Extralight |-> <<"e","x","t","r","a","l","i","g","h","t">>,
     Ultralight |-> <<"u","l","t","r","a","l","i","g","h","t">>,
     Light |-> <<"l","i","g","h","t">>,
     Regular |-> <<"r","e","g","u","l","a","r">>,
     Normal |-> <<"n","o","r","m","a","l">>,
     Medium |-> <<"m","e","d","i","u","m">>,
     Semibold |-> <<"s","e","m","i","b","o","l","d">>,
     Demi |-> <<"d","e","m","i">>,
     Bold |-> <<"b","o","l","d">>,
     Extrabold |-> <<"e","x","t","r","a","b","o","l","d">>,
     Ultrabold |-> <<"u","l","t","r","a","b","o","l","d">>,
     Black |-> <<"b","l","a","c","k">>,
     Heavy |-> <<"h","e","a","v","y">>,
     Italic |-> <<"i","t","a","l","i","c">>,
     Oblique |-> <<"o","b","l","i","q","u","e">>]

\* the literals "100", "200", ..., "900"
Num(d) == <<d, "0", "0">>

\* a style test that knows "italic" only
StyleItalicOnly(lowered) ==
    IF Contains(lowered, Kw.Italic) THEN "italic" ELSE "normal"

\* "Determine style": the test on the lowercased token
StyleOfToken(lowered) ==
    IF Contains(lowered, Kw.Italic) \/ Contains(lowered, Kw.Oblique)
    THEN "italic" ELSE "normal"

\* "Determine weight": the if/elif chain; the keywords are looked up in the
\* lowercased token, the numbers in the token as given
WeightOfToken(lowered, token) ==
    IF \/ Contains(lowered, Kw.Thin)
       \/ Contains(token, Num("1"))
    THEN 100
    ELSE IF \/ Contains(lowered, Kw.Extralight)
            \/ Contains(lowered, Kw.Ultralight)
            \/ Contains(token, Num("2"))
    THEN 200
    ELSE IF \/ Contains(lowered, Kw.Light)
            \/ Contains(token, Num("3"))
    THEN 300
    ELSE IF \/ Contains(lowered, Kw.Regular)
            \/ Contains(lowered, Kw.Normal)
            \/ Contains(token, Num("4"))
    THEN 400
    ELSE IF \/ Contains(lowered, Kw.Medium)
            \/ Contains(token, Num("5"))
    THEN 500
    ELSE IF \/ Contains(lowered, Kw.Semibold)
            \/ Contains(lowered, Kw.Demi)
            \/ Contains(token, Num("6"))
    THEN 600
    ELSE IF \/ Contains(lowered, Kw.Bold)
            \/ Contains(token, Num("7"))
    THEN 700
    ELSE IF \/ Contains(lowered, Kw.Extrabold)
            \/ Contains(lowered, Kw.Ultrabold)
            \/ Contains(token, Num("8"))
    THEN 800
    ELSE IF \/ Contains(lowered, Kw.Black)
            \/ Contains(lowered, Kw.Heavy)
            \/ Contains(token, Num("9"))
    THEN 900
    ELSE 400

\* _parse_weight_style(filename): returns <<weight, style>>
parse_weight_style(filename) ==
    LET filename_lower == Lower(filename)
    IN  <<WeightOfToken(filename_lower, filename), StyleOfToken(filename_lower)>>

\* _parse_weight_style_from_name(style_name): returns <<weight, style>>
parse_weight_style_from_name(style_name) ==
    LET style_lower == Lower(style_name)
    IN  <<WeightOfToken(style_lower, style_name), StyleOfToken(style_lower)>>

----------------------------------------------------------------------------
(* Weight/style harness: the two parsers applied to one token *)

MaxWeightChunks == 3

\* the pieces the tokens are concatenated from
WeightChunks ==
    { <<"T","h","i","n">>, <<"E","x","t","r","a">>, <<"u","l","t","r","a">>,
      <<"L","i","g","h","t">>, <<"R","e","g","u","l","a","r">>,
      <<"M","e","d","i","u","m">>, <<"S","e","m","i">>, <<"D","e","m","i">>,
      <<"B","o","l","d">>, <<"B","l","a","c","k">>, <<"H","E","A","V","Y">>,
      <<"I","t","a","l","i","c">>, <<"O","b","l","i","q","u","e">>,
      <<"8","0","0">> }

OpenSansBoldItalicTtf ==
    <<"O","p","e","n","S","a","n","s","-","B","o","l","d",
      "I","t","a","l","i","c",".","t","t","f">>

FontRegularTtf == <<"F","o","n","t","-","R","e","g","u","l","a","r",".","t","t","f">>

WeightInputs ==
    {Concat(cs) : cs \in StringsUpTo(WeightChunks, MaxWeightChunks)}
        \cup {OpenSansBoldItalicTtf, FontRegularTtf}

InitWeight ==
    /\ arg \in WeightInputs
    /\ hist = <<>>
    /\ RunIdle

ParseFilename ==
    /\ hist = <<>>
    /\ hist' = <<[fn |-> "_parse_weight_style", ret |-> parse_weight_style(arg)]>>
    /\ UNCHANGED <<arg, runvars>>

ParseStyleName ==
    /\ hist = <<>>
    /\ hist' = <<[fn |-> "_parse_weight_style_from_name",
                ret |-> parse_weight_style_from_name(arg)]>>
    /\ UNCHANGED <<arg, runvars>>

NextWeight == ParseFilename \/ ParseStyleName

SpecWeight == InitWeight /\ [][NextWeight]_vars

\* the bands in priority order: keywords, numeric trigger, weight
WeightBands ==
    << [kw |-> {Kw.Thin},                    num |-> Num("1"), weight |-> 100],
       [kw |-> {Kw.Extralight, Kw.Ultralight}, num |-> Num("2"), weight |-> 200],
       [kw |-> {Kw.Light},                   num |-> Num("3"), weight |-> 300],
       [kw |-> {Kw.Regular, Kw.Normal},       num |-> Num("4"), weight |-> 400],
       [kw |-> {Kw.Medium},                  num |-> Num("5"), weight |-> 500],
       [kw |-> {Kw.Semibold, Kw.Demi},        num |-> Num("6"), weight |-> 600],
       [kw |-> {Kw.Bold},                    num |-> Num("7"), weight |-> 700],
       [kw |-> {Kw.Extrabold, Kw.Ultrabold},  num |-> Num("8"), weight |-> 800],
       [kw |-> {Kw.Black, Kw.Heavy},          num |-> Num("9"), weight |-> 900] >>

BandOccurs(b, token) ==
    \/ \E k \in WeightBands[b].kw : Contains(Lower(token), k)
    \/ Contains(token, WeightBands[b].num)

\* C5: the style is italic exactly when the lowercased token contains
\* "italic" or "oblique"; the weight is that of the first band, in the
\* fixed order, whose keyword or number occurs, and 400 when none occurs;
\* "OpenSans-BoldItalic.ttf" gives (700, italic), "Font-Regular.ttf"
\* (400, normal).
C5_FirstBandWins ==
    Len(hist) = 1 =>
        LET occurring == {b \in 1..Len(WeightBands) : BandOccurs(b, arg)}
            first == CHOOSE b \in occurring : \A c \in occurring : b <= c
        IN  /\ hist[1].ret[2] \in {"italic", "normal"}
            /\ hist[1].ret[2] = "italic" <=>
                   \/ Contains(Lower(arg), Kw.Italic)
                   \/ Contains(Lower(arg), Kw.Oblique)
            /\ hist[1].ret[1] = IF occurring = {} THEN 400 ELSE WeightBands[first].weight
            /\ arg = OpenSansBoldItalicTtf => hist[1].ret = <<700, "italic">>
            /\ arg = FontRegularTtf => hist[1].ret = <<400, "normal">>

\* C5 witness: "OpenSans-BoldItalic.ttf" was parsed, or a token with an
\* oblique style and two occurring bands.
C5_Witness ==
    /\ Len(hist) = 1
    /\ \/ arg = OpenSansBoldItalicTtf /\ hist[1].ret = <<700, "italic">>
       \/ arg = <<"S","e","m","i","B","o","l","d","O","b","l","i","q","u","e">>
          /\ hist[1].ret = <<600, "italic">>

\* a token holds no numeric weight substring "100", ..., "900"
NoNumericWeight(token) ==
    \A b \in 1..Len(WeightBands) : ~Contains(token, WeightBands[b].num)

\* C6: a token that contains the keyword "extrabold" or "ultrabold" and no
\* numeric weight substring is given weight 800.
C6_ExtraBoldIs800 ==
    (/\ Len(hist) = 1
     /\ Contains(Lower(arg), Kw.Extrabold) \/ Contains(Lower(arg), Kw.Ultrabold)
     /\ NoNumericWeight(arg))
        => hist[1].ret[1] = 800

----------------------------------------------------------------------------
(* Values shared by the translators *)

\* the str literals of the scripts: file extensions, format keys, name
\* suffixes, the Google variant strings "regular" and "italic", the
\* fontfacekit URL prefix and the tags of a Nerd Fonts record
Lit ==
    [ExtTtf |-> <<".","t","t","f">>,
     ExtOtf |-> <<".","o","t","f">>,
     FmtTtf |-> <<"t","t","f">>,
     FmtOtf |-> <<"o","t","f">>,
     SpaceItalic |-> <<" ","I","t","a","l","i","c">>,
     SpaceRegular |-> <<" ","R","e","g","u","l","a","r">>,
     SpaceBold |-> <<" ","B","o","l","d">>,
     VRegular |-> <<"r","e","g","u","l","a","r">>,
     VItalic |-> <<"i","t","a","l","i","c">>,
     FontfacekitUrl |->
         <<"h","t","t","p","s",":","/","/","w","w","w",".",
           "f","o","n","t","s","q","u","i","r","r","e","l",".","c","o","m","/",
           "f","o","n","t","f","a","c","e","k","i","t","/">>,
     ExtZip |-> <<".","z","i","p">>,
     ExtTarXz |-> <<".","t","a","r",".","x","z">>,
     ExtTarGz |-> <<".","t","a","r",".","g","z">>,
     NerdTags |->
         << <<"n","e","r","d","-","f","o","n","t","s">>, <<"i","c","o","n","s">>,
            <<"p","a","t","c","h","e","d">>, <<"m","o","n","o","s","p","a","c","e">>,
            <<"p","r","o","g","r","a","m","m","i","n","g">> >>]

\* A Python dict with insertion order: a sequence of <<key, value>> pairs
\* with distinct keys.
DictHas(d, k) == \E i \in 1..Len(d) : d[i][1] = k

DictGet(d, k) == d[CHOOSE i \in 1..Len(d) : d[i][1] = k][2]

\* d[k] = v: a new key is appended, an existing key keeps its place
DictSet(d, k, v) ==
    IF DictHas(d, k)
    THEN [i \in 1..Len(d) |-> IF d[i][1] = k THEN <<k, v>> ELSE d[i]]
    ELSE Append(d, <<k, v>>)

\* str.isdigit() on ASCII text
IsDigit(s) == s # <<>> /\ \A i \in 1..Len(s) : s[i] \in Digits

DigitChars == <<"0","1","2","3","4","5","6","7","8","9">>

DigitValue(c) == (CHOOSE i \in 1..10 : DigitChars[i] = c) - 1

\* int(s) for a string of decimal digits
RECURSIVE IntOf(_)
IntOf(s) ==
    IF s = <<>> THEN 0
    ELSE 10 * IntOf(SubSeq(s, 1, Len(s) - 1)) + DigitValue(s[Len(s)])

\* int(s) for any str: Some(the value) of an optional sign and decimal
\* digits, None where int() raises ValueError (the strings here hold no
\* blanks or underscores, which int() also takes)
IntParse(s) ==
    IF s # <<>> /\ s[1] \in {"-", "+"}
    THEN LET digits == SubSeq(s, 2, Len(s))
         IN  IF ~IsDigit(digits) THEN None
             ELSE IF s[1] = "-" THEN Some(0 - IntOf(digits))
             ELSE Some(IntOf(digits))
    ELSE IF IsDigit(s) THEN Some(IntOf(s))
    ELSE None

\* str(n) for an integer n >= 0
RECURSIVE StrOfNat(_)
StrOfNat(n) ==
    IF n < 10 THEN <<DigitChars[n + 1]>>
    ELSE StrOfNat(n \div 10) \o <<DigitChars[(n % 10) + 1]>>

\* str(n) for an integer n
StrOfInt(n) == IF n < 0 THEN <<"-">> \o StrOfNat(0 - n) ELSE StrOfNat(n)

\* the weight_names table
weight_names ==
    << <<100, <<"T","h","i","n">> >>,
       <<200, <<"E","x","t","r","a"," ","L","i","g","h","t">> >>,
       <<300, <<"L","i","g","h","t">> >>,
       <<400, <<"R","e","g","u","l","a","r">> >>,
       <<500, <<"M","e","d","i","u","m">> >>,
       <<600, <<"S","e","m","i"," ","B","o","l","d">> >>,
       <<700, <<"B","o","l","d">> >>,
       <<800, <<"E","x","t","r","a"," ","B","o","l","d">> >>,
       <<900, <<"B","l","a","c","k">> >> >>

\* a lookup that answers "Regular" for every weight missing from the table
weight_to_name_default_regular(weight) ==
    IF DictHas(weight_names, weight)
    THEN DictGet(weight_names, weight)
    ELSE DictGet(weight_names, 400)

\* _weight_to_name(weight): weight_names.get(weight, str(weight))
weight_to_name(weight) ==
    IF DictHas(weight_names, weight)
    THEN DictGet(weight_names, weight)
    ELSE StrOfInt(weight)

\* what a call returns: a value, None, or an exception that leaves it
Raise == [tag |-> "raise"]

RetNone == [tag |-> "none"]

Ok(v) == [tag |-> "ok", val |-> v]

----------------------------------------------------------------------------
(* Google Fonts translator: transform_font and its helpers.                *)
(* An item of the API response is a record                                 *)
(*   [family, category : optional str, variants : list of str,             *)
(*    files : dict variant -> URL].                                        *)

\* _generate_file_urls(font_data, variant): a dict format -> URL
generate_file_urls(font_data, variant) ==
    IF DictHas(font_data.files, variant)
    THEN LET file_url == DictGet(font_data.files, variant)
         IN  IF EndsWith(file_url, Lit.ExtTtf) THEN << <<Lit.FmtTtf, file_url>> >>
             ELSE IF EndsWith(file_url, Lit.ExtOtf) THEN << <<Lit.FmtOtf, file_url>> >>
             ELSE << <<Lit.FmtTtf, file_url>> >>
    ELSE <<>>

\* the record _parse_variant and the other variant builders return
Variant(name, weight, style, subsets, files) ==
    [tag |-> "variant", name |-> name, weight |-> weight, style |-> style,
     subsets |-> subsets, files |-> files]

\* _parse_variant(variant, family, font_data)
parse_variant(variant, family, font_data) ==
    LET files == generate_file_urls(font_data, variant)
        subsets == <<"latin", "latin-ext">>
    IN  IF variant = Lit.VRegular
        THEN Variant(family \o Lit.SpaceRegular, 400, "normal", subsets, files)
        ELSE IF variant = Lit.VItalic
        THEN Variant(family \o Lit.SpaceItalic, 400, "italic", subsets, files)
        ELSE IF IsDigit(variant)
        THEN Variant(family \o <<" ">> \o weight_to_name(IntOf(variant)),
                     IntOf(variant), "normal", subsets, files)
        ELSE IF EndsWith(variant, Lit.VItalic)
        THEN LET prefix == SubSeq(variant, 1, Len(variant) - 6)
             IN  IF IntParse(prefix) # None
                 THEN Variant(family \o <<" ">> \o weight_to_name(IntParse(prefix)[1])
                                  \o Lit.SpaceItalic,
                              IntParse(prefix)[1], "italic", subsets, files)
                 ELSE Raise      \* int() raises ValueError
        ELSE RetNone

\* a variants loop that puts each new variant in front of the earlier ones
RECURSIVE GoogleVariantsReversed(_, _, _)
GoogleVariantsReversed(todo, family, font_data) ==
    IF todo = <<>> THEN Ok(<<>>)
    ELSE LET rest == GoogleVariantsReversed(SubSeq(todo, 1, Len(todo) - 1),
                                            family, font_data)
             variant_data == parse_variant(todo[Len(todo)], family, font_data)
         IN  IF rest.tag = "raise" \/ variant_data.tag = "raise" THEN Raise
             ELSE IF variant_data.tag = "none" THEN rest
             ELSE Ok(<<variant_data>> \o rest.val)

\* the loop of transform_font over font_data["variants"]: Ok(the variants
\* appended), or Raise once a _parse_variant call has raised
RECURSIVE GoogleVariants(_, _, _)
GoogleVariants(todo, family, font_data) ==
    IF todo = <<>> THEN Ok(<<>>)
    ELSE LET rest == GoogleVariants(SubSeq(todo, 1, Len(todo) - 1), family, font_data)
             variant_data == parse_variant(todo[Len(todo)], family, font_data)
         IN  IF rest.tag = "raise" \/ variant_data.tag = "raise" THEN Raise
             ELSE IF variant_data.tag = "none" THEN rest
             ELSE Ok(Append(rest.val, variant_data))

\* the font record of every translator; the fields left out here are
\* constants or copies of input fields
Font(name, family, categories, tags, popularity, variants) ==
    [tag |-> "font", name |-> name, family |-> family,
     categories |-> categories, tags |-> tags, popularity |-> popularity,
     variants |-> variants]

\* min(a, b)
Min(a, b) == IF a <= b THEN a ELSE b

\* the truth value of an optional str: None and "" are false
IsTruthy(x) == x # None /\ x[1] # <<>>

\* a Google popularity without the final min(score, 100)
google_popularity_uncapped(font_data) ==
    Min(Len(font_data.variants) * 10, 50) + Len(font_data.subsets) * 5
        + (IF IsTruthy(font_data.description) THEN 10 ELSE 0)
        + (IF IsTruthy(font_data.designer) THEN 10 ELSE 0)

\* _calculate_popularity(font_data) of the Google translator
google_calculate_popularity(font_data) ==
    LET variants_count == Len(font_data.variants)
        subsets_count == Len(font_data.subsets)
        score == Min(variants_count * 10, 50) + Min(subsets_count * 5, 30)
                     + (IF IsTruthy(font_data.description) THEN 10 ELSE 0)
                     + (IF IsTruthy(font_data.designer) THEN 10 ELSE 0)
    IN  Min(score, 100)

\* the tag strings of the translators
Tag ==
    [Italic |-> <<"i","t","a","l","i","c">>,
     Bold |-> <<"b","o","l","d">>,
     DesignerFont |-> <<"d","e","s","i","g","n","e","r","-","f","o","n","t">>,
     FoundryFont |-> <<"f","o","u","n","d","r","y","-","f","o","n","t">>]

\* _extract_tags(font_data) of the Google translator
google_extract_tags(font_data) ==
    LET variants == font_data.variants
    IN  (IF font_data.category # None
         THEN <<ReplaceChar(Lower(font_data.category[1]), " ", "-")>> ELSE <<>>)
        \o (IF \E i \in 1..Len(variants) : Contains(variants[i], Tag.Italic)
            THEN <<Tag.Italic>> ELSE <<>>)
        \o (IF \E i \in 1..Len(variants) :
                   IsDigit(variants[i]) /\ IntOf(variants[i]) >= 700
            THEN <<Tag.Bold>> ELSE <<>>)

\* transform_font(font_data) of the Google translator
google_transform_font(font_data) ==
    IF font_data.family = None THEN Raise       \* font_data["family"]: KeyError
    ELSE LET family == font_data.family[1]
             variants == GoogleVariants(font_data.variants, family, font_data)
             categories == IF font_data.category = None THEN <<>>
                           ELSE <<normalize_category(font_data.category[1])>>
         IN  IF variants.tag = "raise" THEN Raise
             ELSE Font(family, family, categories, google_extract_tags(font_data),
                       google_calculate_popularity(font_data), variants.val)

----------------------------------------------------------------------------
(* Font Squirrel translator: transform_font and its helpers.               *)
(* An item of the font list is a record                                    *)
(*   [family_name, family_urlname, description, designer, foundry :        *)
(*        optional str,                                                    *)
(*    classification, date_added : optional JSON value].                   *)
(* env is what a run reads besides its input: [now : the day of            *)
(* datetime.now(), hashseed : the seed of str hashing, which fixes the     *)
(* iteration order of sets of str].                                        *)

\* JSON values that are not handled as plain str fields
JStr(s) == [t |-> "str", s |-> s]

JNull == [t |-> "null"]

JNum(n) == [t |-> "num", n |-> n]

\* self.category_mapping of the Font Squirrel translator
squirrel_category_mapping ==
    <<
       <<<<"s","a","n","s","-","s","e","r","i","f">>, Cat.SansSerif>>,
       <<<<"s","e","r","i","f">>, Cat.Serif>>,
       <<<<"d","i","s","p","l","a","y">>, Cat.Display>>,
       <<<<"h","a","n","d","w","r","i","t","i","n","g">>, Cat.Handwriting>>,
       <<<<"m","o","n","o","s","p","a","c","e">>, Cat.Monospace>>,
       <<<<"s","c","r","i","p","t">>, Cat.Script>>,
       <<<<"d","e","c","o","r","a","t","i","v","e">>, Cat.Decorative>>,
       <<<<"s","y","m","b","o","l">>, Cat.Symbol>>,
       <<<<"i","c","o","n">>, <<"I","c","o","n">>>>
    >>

\* _transform_variants(font_data, details) with details = {}: font_files is
\* empty, so the fallback branch builds the one variant
transform_variants(font_data) ==
    LET family_urlname == IF font_data.family_urlname = None THEN <<>>
                          ELSE font_data.family_urlname[1]
        download_url == IF family_urlname # <<>>
                        THEN Lit.FontfacekitUrl \o family_urlname ELSE <<>>
        family_name == IF font_data.family_name = None
                       THEN <<"F","o","n","t">> ELSE font_data.family_name[1]
    IN  << Variant(family_name \o Lit.SpaceRegular, 400, "normal", <<"latin">>,
                   << <<Lit.FmtTtf, download_url>> >>) >>

\* a str that datetime.fromisoformat parses: the day it names, and whether
\* it carries a UTC offset
IsoDate(day, aware) == [t |-> "date", day |-> day, aware |-> aware]

\* the `date_added` bonus of _calculate_popularity; every exception of the
\* try block (a value that is no str, a str that does not parse, an aware
\* date subtracted from the naive now) is passed over
date_bonus(date_added, now) ==
    IF date_added = None THEN 0
    ELSE IF date_added[1].t # "date" THEN 0
    ELSE IF date_added[1].aware THEN 0
    ELSE LET days_old == now - date_added[1].day
         IN  IF days_old < 30 THEN 10
             ELSE IF days_old < 90 THEN 5
             ELSE 0

\* _calculate_popularity(font_data, details) with details = {}
squirrel_calculate_popularity(font_data, now) ==
    LET score == 50 + (IF IsTruthy(font_data.description) THEN 10 ELSE 0)
                    + (IF IsTruthy(font_data.designer) THEN 10 ELSE 0)
                    + date_bonus(font_data.date_added, now)
    IN  Min(score, 100)

\* the elements of s without repetitions, in order of first occurrence
RECURSIVE Distinct(_)
Distinct(s) ==
    IF s = <<>> THEN <<>>
    ELSE LET front == Distinct(SubSeq(s, 1, Len(s) - 1))
         IN  IF \E i \in 1..Len(front) : front[i] = s[Len(s)] THEN front
             ELSE Append(front, s[Len(s)])

\* list(set(tags)): the distinct elements in the iteration order the hash
\* seed gives them; the seeds 0 .. n! - 1 give the n! orders of n elements
RECURSIVE IterationOrder(_, _)
IterationOrder(elems, hashseed) ==
    IF elems = <<>> THEN <<>>
    ELSE LET k == (hashseed % Len(elems)) + 1
         IN  <<elems[k]>> \o
             IterationOrder(SubSeq(elems, 1, k - 1) \o SubSeq(elems, k + 1, Len(elems)),
                            hashseed \div Len(elems))

\* _extract_tags(font_data, details) with details = {}; classification is
\* a str here, transform_font has called .lower() on it before
squirrel_extract_tags(font_data, hashseed) ==
    LET tags ==
            (IF font_data.classification # None
             THEN <<ReplaceChar(Lower(font_data.classification[1].s), " ", "-")>>
             ELSE <<>>)
            \o (IF IsTruthy(font_data.designer) THEN <<Tag.DesignerFont>> ELSE <<>>)
            \o (IF IsTruthy(font_data.foundry) THEN <<Tag.FoundryFont>> ELSE <<>>)
    IN  IterationOrder(Distinct(tags), hashseed)

\* transform_font(font_data) of the Font Squirrel translator
squirrel_transform_font(font_data, env) ==
    LET font_name == IF font_data.family_name = None THEN <<>>
                     ELSE font_data.family_name[1]
        font_urlname == IF font_data.family_urlname = None THEN <<>>
                        ELSE font_data.family_urlname[1]
    IN  IF font_name = <<>> \/ font_urlname = <<>> THEN RetNone
        ELSE IF font_data.classification # None
                /\ font_data.classification[1].t # "str"
        THEN Raise      \* font_data["classification"].lower(): AttributeError
        ELSE LET categories ==
                     IF font_data.classification = None THEN <<>>
                     ELSE LET classification == Lower(font_data.classification[1].s)
                          IN  IF DictHas(squirrel_category_mapping, classification)
                              THEN <<DictGet(squirrel_category_mapping, classification)>>
                              ELSE <<>>
             IN  Font(font_name, font_name, categories,
                      squirrel_extract_tags(font_data, env.hashseed),
                      squirrel_calculate_popularity(font_data, env.now),
                      transform_variants(font_data))

----------------------------------------------------------------------------
(* Nerd Fonts translator: extract_font_info_from_assets and its helpers.   *)
(* An asset of the release is a record                                     *)
(*   [name, browser_download_url : optional str].                          *)

\* self.font_patterns, in insertion order: <<pattern, display name>>
font_patterns ==
    <<
       <<<<"F","i","r","a","C","o","d","e">>,
         <<"F","i","r","a"," ","C","o","d","e">>>>,
       <<<<"J","e","t","B","r","a","i","n","s","M","o","n","o">>,
         <<"J","e","t","B","r","a","i","n","s"," ","M","o","n","o">>>>,
       <<<<"C","a","s","c","a","d","i","a","C","o","d","e">>,
         <<"C","a","s","c","a","d","i","a"," ","C","o","d","e">>>>,
       <<<<"S","o","u","r","c","e","C","o","d","e","P","r","o">>,
         <<"S","o","u","r","c","e"," ","C","o","d","e"," ","P","r","o">>>>,
       <<<<"H","a","c","k">>,
         <<"H","a","c","k">>>>,
       <<<<"R","o","b","o","t","o","M","o","n","o">>,
         <<"R","o","b","o","t","o"," ","M","o","n","o">>>>,
       <<<<"U","b","u","n","t","u","M","o","n","o">>,
         <<"U","b","u","n","t","u"," ","M","o","n","o">>>>,
       <<<<"D","e","j","a","V","u","S","a","n","s","M","o","n","o">>,
         <<"D","e","j","a","V","u"," ","S","a","n","s"," ","M","o","n","o">>>>,
       <<<<"D","r","o","i","d","S","a","n","s","M","o","n","o">>,
         <<"D","r","o","i","d"," ","S","a","n","s"," ","M","o","n","o">>>>,
       <<<<"M","o","n","o","n","o","k","i">>,
         <<"M","o","n","o","n","o","k","i">>>>,
       <<<<"N","o","t","o">>,
         <<"N","o","t","o"," ","S","a","n","s"," ","M","o","n","o">>>>,
       <<<<"S","p","a","c","e","M","o","n","o">>,
         <<"S","p","a","c","e"," ","M","o","n","o">>>>,
       <<<<"T","e","r","m","i","n","u","s">>,
         <<"T","e","r","m","i","n","u","s">>>>,
       <<<<"V","i","c","t","o","r","M","o","n","o">>,
         <<"V","i","c","t","o","r"," ","M","o","n","o">>>>,
       <<<<"M","e","s","l","o">>,
         <<"M","e","s","l","o">>>>,
       <<<<"L","i","l","e","x">>,
         <<"L","i","l","e","x">>>>,
       <<<<"I","o","s","e","v","k","a">>,
         <<"I","o","s","e","v","k","a">>>>,
       <<<<"A","g","a","v","e">>,
         <<"A","g","a","v","e">>>>,
       <<<<"A","r","i","m","o">>,
         <<"A","r","i","m","o">>>>,
       <<<<"A","u","r","u","l","e","n","t","S","a","n","s","M","o","n","o">>,
         <<"A","u","r","u","l","e","n","t"," ","S","a","n","s"," ","M","o","n","o">>>>,
       <<<<"B","i","g","B","l","u","e","T","e","r","m","i","n","a","l">>,
         <<"B","i","g"," ","B","l","u","e"," ","T","e","r","m","i","n","a","l">>>>,
       <<<<"B","i","t","s","t","r","e","a","m","V","e","r","a","S","a","n","s","M","o","n","o">>,
         <<"B","i","t","s","t","r","e","a","m"," ","V","e","r","a"," ","S","a","n","s"," ","M","o","n","o">>>>,
       <<<<"B","l","e","x","M","o","n","o">>,
         <<"B","l","e","x"," ","M","o","n","o">>>>,
       <<<<"C","o","d","e","N","e","w","R","o","m","a","n">>,
         <<"C","o","d","e"," ","N","e","w"," ","R","o","m","a","n">>>>,
       <<<<"C","o","m","i","c","S","h","a","n","n","s","M","o","n","o">>,
         <<"C","o","m","i","c"," ","S","h","a","n","n","s"," ","M","o","n","o">>>>,
       <<<<"C","o","u","s","i","n","e">>,
         <<"C","o","u","s","i","n","e">>>>,
       <<<<"D","a","d","d","y","T","i","m","e","M","o","n","o">>,
         <<"D","a","d","d","y","T","i","m","e"," ","M","o","n","o">>>>,
       <<<<"F","a","n","t","a","s","q","u","e","S","a","n","s","M","o","n","o">>,
         <<"F","a","n","t","a","s","q","u","e"," ","S","a","n","s"," ","M","o","n","o">>>>,
       <<<<"G","o","M","o","n","o">>,
         <<"G","o"," ","M","o","n","o">>>>,
       <<<<"G","o","h","u">>,
         <<"G","o","h","u">>>>,
       <<<<"H","e","a","v","y","D","a","t","a">>,
         <<"H","e","a","v","y"," ","D","a","t","a">>>>,
       <<<<"H","e","r","m","i","t">>,
         <<"H","e","r","m","i","t">>>>,
       <<<<"i","A","-","W","r","i","t","e","r">>,
         <<"i","A"," ","W","r","i","t","e","r"," ","M","o","n","o">>>>,
       <<<<"I","B","M","P","l","e","x","M","o","n","o">>,
         <<"I","B","M"," ","P","l","e","x"," ","M","o","n","o">>>>,
       <<<<"I","n","c","o","n","s","o","l","a","t","a">>,
         <<"I","n","c","o","n","s","o","l","a","t","a">>>>,
       <<<<"I","n","c","o","n","s","o","l","a","t","a","G","o">>,
         <<"I","n","c","o","n","s","o","l","a","t","a"," ","G","o">>>>,
       <<<<"I","n","c","o","n","s","o","l","a","t","a","L","G","C">>,
         <<"I","n","c","o","n","s","o","l","a","t","a"," ","L","G","C">>>>,
       <<<<"I","n","t","e","l","O","n","e","M","o","n","o">>,
         <<"I","n","t","e","l"," ","O","n","e"," ","M","o","n","o">>>>,
       <<<<"L","e","k","t","o","n">>,
         <<"L","e","k","t","o","n">>>>,
       <<<<"L","i","b","e","r","a","t","i","o","n","M","o","n","o">>,
         <<"L","i","b","e","r","a","t","i","o","n"," ","M","o","n","o">>>>,
       <<<<"L","u","x","i","M","o","n","o">>,
         <<"L","u","x","i"," ","M","o","n","o">>>>,
       <<<<"M","P","l","u","s">>,
         <<"M","+">>>>,
       <<<<"O","v","e","r","p","a","s","s">>,
         <<"O","v","e","r","p","a","s","s"," ","M","o","n","o">>>>,
       <<<<"P","r","o","F","o","n","t">>,
         <<"P","r","o","F","o","n","t">>>>,
       <<<<"P","r","o","g","g","y","C","l","e","a","n">>,
         <<"P","r","o","g","g","y","C","l","e","a","n">>>>,
       <<<<"P","T","M","o","n","o">>,
         <<"P","T"," ","M","o","n","o">>>>,
       <<<<"R","a","l","e","w","a","y">>,
         <<"R","a","l","e","w","a","y">>>>,
       <<<<"S","a","u","c","e","C","o","d","e","P","r","o">>,
         <<"S","a","u","c","e"," ","C","o","d","e"," ","P","r","o">>>>,
       <<<<"S","h","u","r","e","T","e","c","h","M","o","n","o">>,
         <<"S","h","u","r","e"," ","T","e","c","h"," ","M","o","n","o">>>>,
       <<<<"T","i","n","o","s">>,
         <<"T","i","n","o","s">>>>,
       <<<<"T","i","g","h","t">>,
         <<"T","i","g","h","t">>>>,
       <<<<"T","l","w","g","M","o","n","o">>,
         <<"T","l","w","g"," ","M","o","n","o">>>>,
       <<<<"T","w","i","l","i","o","S","a","n","s","M","o","n","o">>,
         <<"T","w","i","l","i","o"," ","S","a","n","s"," ","M","o","n","o">>>>,
       <<<<"V","a","z","i","r","C","o","d","e">>,
         <<"V","a","z","i","r"," ","C","o","d","e">>>>,
       <<<<"Y","a","H","e","i","C","o","n","s","o","l","a","s","H","y","b","r","i","d">>,
         <<"Y","a","H","e","i"," ","C","o","n","s","o","l","a","s"," ","H","y","b","r","i","d">>>>
    >>

\* str.replace(old, ""): every occurrence of old, left to right, is removed
RECURSIVE Remove(_, _)
Remove(s, old) ==
    IF Len(s) < Len(old) THEN s
    ELSE IF SubSeq(s, 1, Len(old)) = old
         THEN Remove(SubSeq(s, Len(old) + 1, Len(s)), old)
         ELSE <<s[1]>> \o Remove(Tail(s), old)

\* the length of the longest prefix of s whose characters are all in set
RECURSIVE RunLen(_, _)
RunLen(s, set) ==
    IF s = <<>> \/ s[1] \notin set THEN 0 ELSE 1 + RunLen(Tail(s), set)

\* the length of the match of [Nn]erd\s*[Ff]ont[s]? at the start of s, or 0;
\* with spaces = FALSE the pattern is [Nn]erd[Ff]ont[s]?
NerdFontMatch(s, spaces) ==
    IF Len(s) >= 4 /\ s[1] \in {"N", "n"} /\ SubSeq(s, 2, 4) = <<"e","r","d">>
    THEN LET gap == IF spaces THEN RunLen(SubSeq(s, 5, Len(s)), {" ", "\t"}) ELSE 0
             rest == SubSeq(s, 5 + gap, Len(s))
         IN  IF Len(rest) >= 4 /\ rest[1] \in {"F", "f"}
                /\ SubSeq(rest, 2, 4) = <<"o","n","t">>
             THEN 4 + gap + 4 + (IF Len(rest) >= 5 /\ rest[5] = "s" THEN 1 ELSE 0)
             ELSE 0
    ELSE 0

\* re.sub of the pattern above by ""
RECURSIVE RemoveNerdFont(_, _)
RemoveNerdFont(s, spaces) ==
    IF s = <<>> THEN s
    ELSE LET n == NerdFontMatch(s, spaces)
         IN  IF n > 0 THEN RemoveNerdFont(SubSeq(s, n + 1, Len(s)), spaces)
             ELSE <<s[1]>> \o RemoveNerdFont(Tail(s), spaces)

\* the length of the match of v?\d+\.\d+\.?\d* at the start of s, or 0
VersionMatch(s) ==
    LET v == IF s # <<>> /\ s[1] = "v" THEN 1 ELSE 0
        a == SubSeq(s, v + 1, Len(s))
        major == RunLen(a, Digits)
        b == SubSeq(a, major + 1, Len(a))
        minor == IF b # <<>> /\ b[1] = "." THEN RunLen(Tail(b), Digits) ELSE 0
        c == SubSeq(b, minor + 2, Len(b))
        dot == IF c # <<>> /\ c[1] = "." THEN 1 ELSE 0
        patch == RunLen(SubSeq(c, dot + 1, Len(c)), Digits)
    IN  IF major > 0 /\ minor > 0 THEN v + major + 1 + minor + dot + patch ELSE 0

\* re.sub(r'v?\d+\.\d+\.?\d*', '', s)
RECURSIVE RemoveVersions(_)
RemoveVersions(s) ==
    IF s = <<>> THEN s
    ELSE LET n == VersionMatch(s)
         IN  IF n > 0 THEN RemoveVersions(SubSeq(s, n + 1, Len(s)))
             ELSE <<s[1]>> \o RemoveVersions(Tail(s))

IsCased(c) == c \in AsciiLower \cup AsciiUpper \cup {"U+00C9", "U+00E9"}

\* str.title(): a cased character is uppercased after an uncased one (or
\* at the start) and lowercased after a cased one
Title(s) ==
    [i \in 1..Len(s) |->
        IF i > 1 /\ IsCased(s[i - 1]) THEN ToLower(s[i]) ELSE ToUpper(s[i])]

\* _extract_font_name(filename): Some(display name) or None
extract_font_name(filename) ==
    LET name == Remove(Remove(filename, Lit.ExtZip), Lit.ExtTarXz)
        hits == {i \in 1..Len(font_patterns) :
                    Contains(Lower(name), Lower(font_patterns[i][1]))}
    IN  IF hits # {}
        THEN Some(font_patterns[CHOOSE i \in hits : \A j \in hits : i <= j][2])
        ELSE LET stripped == RemoveVersions(
                                 RemoveNerdFont(RemoveNerdFont(name, FALSE), TRUE))
                 cleaned == Strip(ReplaceChar(ReplaceChar(stripped, "_", " "), "-", " "))
             IN  IF cleaned # <<>> THEN Some(Title(cleaned)) ELSE None

\* _create_variant(filename, download_url, font_name)
create_variant(filename, download_url, font_name) ==
    IF Contains(filename, <<"B","o","l","d">>) \/ Contains(filename, <<"b","o","l","d">>)
    THEN Variant(font_name \o Lit.SpaceBold, 700, "normal", <<"latin", "latin-ext">>,
                 << <<Lit.FmtTtf, download_url>> >>)
    ELSE Variant(font_name \o Lit.SpaceRegular, 400, "normal", <<"latin", "latin-ext">>,
                 << <<Lit.FmtTtf, download_url>> >>)

\* popular_fonts of _calculate_popularity: <<font name, score>>
popular_fonts ==
    <<
       <<<<"F","i","r","a"," ","C","o","d","e">>, 95>>,
       <<<<"J","e","t","B","r","a","i","n","s"," ","M","o","n","o">>, 90>>,
       <<<<"C","a","s","c","a","d","i","a"," ","C","o","d","e">>, 85>>,
       <<<<"S","o","u","r","c","e"," ","C","o","d","e"," ","P","r","o">>, 80>>,
       <<<<"H","a","c","k">>, 75>>,
       <<<<"R","o","b","o","t","o"," ","M","o","n","o">>, 70>>,
       <<<<"U","b","u","n","t","u"," ","M","o","n","o">>, 65>>,
       <<<<"D","e","j","a","V","u"," ","S","a","n","s"," ","M","o","n","o">>, 60>>,
       <<<<"M","o","n","o","n","o","k","i">>, 55>>,
       <<<<"N","o","t","o"," ","S","a","n","s"," ","M","o","n","o">>, 50>>,
       <<<<"S","p","a","c","e"," ","M","o","n","o">>, 45>>,
       <<<<"T","e","r","m","i","n","u","s">>, 40>>,
       <<<<"V","i","c","t","o","r"," ","M","o","n","o">>, 35>>,
       <<<<"M","e","s","l","o">>, 30>>
    >>

\* _calculate_popularity(font_name) of the Nerd Fonts translator
nerd_calculate_popularity(font_name) ==
    IF DictHas(popular_fonts, font_name) THEN DictGet(popular_fonts, font_name)
    ELSE 25

\* one pass of the loop body of extract_font_info_from_assets: the fonts
\* dict after the asset, or Raise
NerdAsset(fonts, asset) ==
    IF asset.name = None \/ asset.browser_download_url = None
    THEN Raise          \* asset["name"], asset["browser_download_url"]: KeyError
    ELSE LET name == asset.name[1]
             download_url == asset.browser_download_url[1]
             font_name == extract_font_name(name)
         IN  IF ~(EndsWith(name, Lit.ExtZip) \/ EndsWith(name, Lit.ExtTarXz)) THEN Ok(fonts)
             ELSE IF font_name = None THEN Ok(fonts)
             ELSE LET font_id == clean_id(font_name[1])
                      entry == IF DictHas(fonts, font_id)
                               THEN DictGet(fonts, font_id)
                               ELSE Font(font_name[1], font_name[1],
                                         <<normalize_category(
                                               <<"N","e","r","d"," ","F","o","n","t">>)>>,
                                         Lit.NerdTags,
                                         nerd_calculate_popularity(font_name[1]),
                                         <<>>)
                      variant == create_variant(name, download_url, font_name[1])
                  IN  Ok(DictSet(fonts, font_id,
                                 [entry EXCEPT !.variants = Append(@, variant)]))

\* extract_font_info_from_assets(assets): Ok(fonts) or Raise
RECURSIVE extract_font_info_from_assets(_)
extract_font_info_from_assets(assets) ==
    IF assets = <<>> THEN Ok(<<>>)
    ELSE LET before == extract_font_info_from_assets(SubSeq(assets, 1, Len(assets) - 1))
         IN  IF before.tag = "raise" THEN Raise
             ELSE NerdAsset(before.val, assets[Len(assets)])

----------------------------------------------------------------------------
(* Open Foundry translator: translate and its helpers.                     *)
(* A row of the sheet is a record                                          *)
(*   [font_name : optional str,                                            *)
(*    info_weight, info_style, download_link, classification :             *)
(*        optional JSON value].                                            *)

\* a _weight_from_info that returns int(weight) whatever its value
weight_from_info_unchecked(weight) ==
    IF weight = None THEN 400
    ELSE IF weight[1].t = "num" THEN weight[1].n
    ELSE IF weight[1].t = "str" /\ IsDigit(weight[1].s) THEN IntOf(weight[1].s)
    ELSE 400

\* _weight_from_info(weight), weight = row.get("info-weight")
weight_from_info(weight) ==
    LET w == IF weight = None THEN None                 \* int(None): TypeError
             ELSE IF weight[1].t = "num" THEN Some(weight[1].n)
             ELSE IF weight[1].t = "str" /\ IsDigit(weight[1].s)
                  THEN Some(IntOf(weight[1].s))
             ELSE None                                  \* ValueError, TypeError
    IN  IF w # None /\ 100 <= w[1] /\ w[1] <= 900 THEN w[1] ELSE 400

\* str(row.get("info-style", ""))
StrOfJson(v) ==
    IF v = None THEN <<>>
    ELSE IF v[1].t = "str" THEN v[1].s
    ELSE IF v[1].t = "num" THEN StrOfNat(v[1].n)
    ELSE <<"N","o","n","e">>

\* _style_from_info(style)
style_from_info(style) ==
    IF style = <<>> THEN "normal"
    ELSE IF Contains(Lower(style), Kw.Italic) \/ Contains(Lower(style), Kw.Oblique)
    THEN "italic"
    ELSE "normal"

\* dl.rsplit(".", 1)[-1] and dl.split(".")[-1]: the text after the last "."
RECURSIVE AfterLastDot(_)
AfterLastDot(s) ==
    IF s = <<>> \/ s[Len(s)] = "." THEN <<>>
    ELSE AfterLastDot(SubSeq(s, 1, Len(s) - 1)) \o <<s[Len(s)]>>

\* a files dict keyed by the text after the last "." of every link
OFFilesByLastExtension(row) ==
    IF row.download_link # None /\ row.download_link[1].t = "str"
       /\ row.download_link[1].s # <<>>
    THEN LET dl == row.download_link[1].s
         IN  IF \/ EndsWith(dl, Lit.ExtTtf) \/ EndsWith(dl, Lit.ExtOtf)
                \/ EndsWith(dl, Lit.ExtZip) \/ EndsWith(dl, Lit.ExtTarGz)
                \/ EndsWith(dl, Lit.ExtTarXz)
             THEN << <<Lower(AfterLastDot(dl)), dl>> >>
             ELSE <<>>
    ELSE <<>>

\* the files dict of _build_variant
OFFiles(row) ==
    IF row.download_link # None /\ row.download_link[1].t = "str"
       /\ row.download_link[1].s # <<>>
    THEN LET dl == row.download_link[1].s
         IN  IF EndsWith(dl, Lit.ExtTtf) \/ EndsWith(dl, Lit.ExtOtf)
             THEN << <<Lower(AfterLastDot(dl)), dl>> >>
             ELSE IF \/ EndsWith(dl, Lit.ExtZip)
                     \/ EndsWith(dl, Lit.ExtTarGz)
                     \/ EndsWith(dl, Lit.ExtTarXz)
             THEN LET ext == IF EndsWith(dl, Lit.ExtTarGz) THEN Tail(Lit.ExtTarGz)
                             ELSE IF EndsWith(dl, Lit.ExtTarXz) THEN Tail(Lit.ExtTarXz)
                             ELSE Lower(AfterLastDot(dl))
                  IN  << <<ext, dl>> >>
             ELSE <<>>
    ELSE <<>>

\* _build_variant(family, row)
build_variant(family, row) ==
    LET weight == weight_from_info(row.info_weight)
        style == style_from_info(StrOfJson(row.info_style))
        name == family \o <<" ">> \o weight_to_name(weight)
                    \o (IF style = "italic" THEN Lit.SpaceItalic ELSE <<>>)
        files == OFFiles(row)
    IN  IF files = <<>> THEN RetNone
        ELSE Variant(name, weight, style, <<"latin">>, files)

\* the key of the `seen` set: (weight, style, sorted files items)
SeenKey(variant) == <<variant.weight, variant.style, variant.files>>

\* a membership test that never finds the key
NeverSeen(key, variants) == FALSE

\* `key in seen`: seen holds the keys of the variants appended so far
InSeen(key, variants) == \E i \in 1..Len(variants) : SeenKey(variants[i]) = key

\* the loop over the rows of one family: the variants list
RECURSIVE OFVariants(_, _)
OFVariants(family, items) ==
    IF items = <<>> THEN <<>>
    ELSE LET variants == OFVariants(family, SubSeq(items, 1, Len(items) - 1))
             variant == build_variant(family, items[Len(items)])
         IN  IF variant.tag = "none" THEN variants
             ELSE IF InSeen(SeenKey(variant), variants) THEN variants
             ELSE Append(variants, variant)

\* the body of the loop over families: Ok(Some(font)), Ok(None) for a
\* family that is skipped, or Raise
OFFamily(family, items) ==
    LET variants == OFVariants(family, items)
        classification == items[1].classification
        truthy == /\ classification # None
                  /\ \/ classification[1].t = "str" /\ classification[1].s # <<>>
                     \/ classification[1].t = "num" /\ classification[1].n # 0
    IN  IF variants = <<>> THEN Ok(None)
        ELSE IF truthy /\ classification[1].t # "str"
        THEN Raise      \* category.strip(): AttributeError
        ELSE Ok(Some(Font(family, family,
                          IF truthy THEN <<normalize_category(classification[1].s)>>
                          ELSE <<>>,
                          <<>>, 0, variants)))

\* the grouping loop: families, a dict family -> rows, in insertion order
RECURSIVE OFGroup(_)
OFGroup(rows) ==
    IF rows = <<>> THEN <<>>
    ELSE LET families == OFGroup(SubSeq(rows, 1, Len(rows) - 1))
             row == rows[Len(rows)]
         IN  IF row.font_name = None \/ row.font_name[1] = <<>> THEN families
             ELSE LET family == row.font_name[1]
                      items == IF DictHas(families, family)
                               THEN DictGet(families, family) ELSE <<>>
                  IN  DictSet(families, family, Append(items, row))

\* the loop over families.items(): Ok(fonts) or Raise
RECURSIVE OFFonts(_)
OFFonts(families) ==
    IF families = <<>> THEN Ok(<<>>)
    ELSE LET before == OFFonts(SubSeq(families, 1, Len(families) - 1))
             family == families[Len(families)][1]
             font == OFFamily(family, families[Len(families)][2])
         IN  IF before.tag = "raise" \/ font.tag = "raise" THEN Raise
             ELSE IF font.val = None THEN before
             ELSE Ok(DictSet(before.val, clean_id(family), font.val[1]))

----------------------------------------------------------------------------
(* Transform harness: one translator's transform applied to one input *)

MaxVariants == 2

MaxCount == 7

MaxAssets == 2

MaxRows == 3

\* the family names, categories, URLs and variant strings of the inputs
Sample ==
    [TestFont |-> <<"T","e","s","t"," ","F","o","n","t">>,
     MonoFont |-> <<"M","o","n","o">>,
     TestFontHyphen |-> <<"T","e","s","t","-","F","o","n","t">>,
     SansSerifRaw |-> <<"s","a","n","s","-","s","e","r","i","f">>,
     UrlRTtf |-> <<"r",".","t","t","f">>,
     UrlIOtf |-> <<"i",".","o","t","f">>,
     UrlB |-> <<"b">>,
     UrlATarGz |-> <<"a",".","t","a","r",".","g","z">>,
     UrlAExe |-> <<"a",".","e","x","e">>,
     UrlAZip |-> <<"a",".","z","i","p">>,
     UrlATarXz |-> <<"a",".","t","a","r",".","x","z">>,
     V700 |-> <<"7","0","0">>,
     V700Italic |-> <<"7","0","0","i","t","a","l","i","c">>,
     V450 |-> <<"4","5","0">>,
     V50 |-> <<"5","0">>,
     VMinus5Italic |-> <<"-","5","i","t","a","l","i","c">>,
     VBoldItalic |-> <<"b","o","l","d","i","t","a","l","i","c">>,
     VBold |-> <<"b","o","l","d">>,
     V400Italic |-> <<"4","0","0","i","t","a","l","i","c">>,
     Subsets |-> << <<"l","a","t","i","n">>, <<"l","a","t","i","n","-","e","x","t">> >>]

GoogleVariantStrings ==
    {Lit.VRegular, Lit.VItalic, Sample.V700, Sample.V700Italic, Sample.V450, Sample.V50,
     Sample.VMinus5Italic, Sample.VBoldItalic, Sample.VBold, Sample.V400Italic}

\* the "files" dicts of the items: one with a URL for every variant string,
\* one that lacks the keys "regular" and "700italic"
GoogleFilesAll ==
    << <<Lit.VRegular, Sample.UrlRTtf>>, <<Lit.VItalic, Sample.UrlIOtf>>,
       <<Sample.V700, Sample.UrlB>>,
       <<Sample.V700Italic, Sample.UrlRTtf>>, <<Sample.V450, Sample.UrlIOtf>>,
       <<Sample.VBold, Sample.UrlB>>,
       <<Sample.V400Italic, Sample.UrlIOtf>> >>

GoogleFilesPartial ==
    << <<Lit.VItalic, Sample.UrlIOtf>>, <<Sample.V700, Sample.UrlB>>,
       <<Sample.V450, Sample.UrlRTtf>> >>

\* an item with all its files, a description and subsets, or with some of
\* its files and an empty designer
GoogleItems ==
    {[family |-> f, category |-> c, variants |-> v, files |-> r.files,
      subsets |-> r.subsets, description |-> r.description,
      designer |-> r.designer] :
        f \in {None, Some(Sample.TestFont)},
        c \in {None, Some(Sample.SansSerifRaw)},
        v \in StringsUpTo(GoogleVariantStrings, MaxVariants),
        r \in {[files |-> GoogleFilesAll, subsets |-> Sample.Subsets,
                description |-> Some(<<"d">>), designer |-> None],
               [files |-> GoogleFilesPartial, subsets |-> <<>>,
                description |-> None, designer |-> Some(<<>>)]}}

\* n copies of x
Copies(x, n) == [i \in 1..n |-> x]

\* items with up to MaxCount variants and subsets, with and without a
\* description and a designer
GooglePopularityItems ==
    {[family |-> Some(Sample.MonoFont), category |-> None,
      variants |-> Copies(Lit.VRegular, k), files |-> GoogleFilesPartial,
      subsets |-> Copies(Sample.Subsets[1], n),
      description |-> d, designer |-> g] :
        k \in 0..MaxCount, n \in 0..MaxCount,
        d \in {None, Some(<<>>), Some(<<"d">>)}, g \in {None, Some(<<"x">>)}}

\* the environments of a run: the days datetime.now() can give and the
\* seeds of str hashing
Envs == [now : {110, 150, 200}, hashseed : 0..5]

\* the environment of the scripts that read neither
NoEnv == [now |-> 110, hashseed |-> 0]

SquirrelItems ==
    [family_name : {None, Some(<<>>), Some(Sample.TestFont)},
     family_urlname : {None, Some(<<"t","e","s","t","-","f","o","n","t">>)},
     classification : {None, Some(JStr(<<"S","a","n","s","-","S","e","r","i","f">>)),
                       Some(JStr(<<"b","l","a","c","k","l","e","t","t","e","r">>)),
                       Some(JNull)},
     description : {None, Some(<<"d">>)},
     designer : {None, Some(<<"x">>)},
     foundry : {None, Some(<<"x">>)},
     date_added : {None, Some(IsoDate(100, FALSE)), Some(IsoDate(100, TRUE)),
                   Some(JStr(<<"x">>))}]

NerdAssetNames ==
    { <<"F","i","r","a","C","o","d","e",".","z","i","p">>,
      <<"F","i","r","a","C","o","d","e",".","t","a","r",".","x","z">>,
      <<"H","a","c","k","-","B","o","l","d",".","z","i","p">>,
      <<"r","e","a","d","m","e",".","m","d">>,
      <<"N","e","r","d","F","o","n","t","s","-","v","3",".","0",".","2",".","z","i","p">>,
      <<"m","y","_","f","o","n","t",".","z","i","p">> }

NerdAssets ==
    [name : {Some(n) : n \in NerdAssetNames},
     browser_download_url : {Some(<<"u","1">>), Some(<<"u","2">>)}]
        \cup {[name |-> None, browser_download_url |-> Some(<<"u","1">>)],
              [name |-> Some(<<"H","a","c","k",".","z","i","p">>),
               browser_download_url |-> None]}

Row(n, w, s, l, c) ==
    [font_name |-> n, info_weight |-> w, info_style |-> s,
     download_link |-> l, classification |-> c]

OFRows ==
    {Row(Some(n), ws[1], ws[2], Some(JStr(l)), None) :
        n \in {Sample.TestFont, Sample.MonoFont},
        ws \in {<<Some(JNum(700)), Some(JStr(<<"I","t","a","l","i","c">>))>>,
                <<Some(JStr(Sample.V450)), None>>},
        l \in {Sample.UrlRTtf, Sample.UrlATarGz, <<>>}}
    \cup
    {Row(None, Some(JNum(700)), None, Some(JStr(Sample.UrlRTtf)), None),
     Row(Some(Sample.TestFont), Some(JNum(950)), Some(JStr(<<"O","b","l","i","q","u","e">>)),
         Some(JStr(Sample.UrlIOtf)), Some(JStr(Sample.SansSerifRaw))),
     Row(Some(Sample.TestFont), Some(JStr(Sample.VBold)), Some(JNull),
         Some(JStr(Sample.UrlAExe)), None),
     Row(Some(Sample.MonoFont), None, None, Some(JNull), Some(JNum(5))),
     Row(Some(Sample.MonoFont), None, None, Some(JStr(Sample.UrlAZip)), None),
     Row(Some(Sample.TestFont), None, None, Some(JStr(Sample.UrlATarXz)), None),
     Row(Some(Sample.MonoFont), Some(JNum(700)), None, None, None),
     Row(Some(Sample.MonoFont), Some(JNum(700)), None, Some(JStr(Sample.UrlRTtf)),
         Some(JNum(5)))}

InitTransform ==
    /\ hist = <<>>
    /\ RunIdle
    /\ \/ arg \in [kind : {"google"}, input : GoogleItems \cup GooglePopularityItems,
                   env : {NoEnv}]
       \/ arg \in [kind : {"squirrel"}, input : SquirrelItems, env : Envs]
       \/ arg \in [kind : {"nerd"}, input : StringsUpTo(NerdAssets, MaxAssets),
                   env : {NoEnv}]
       \/ \E i, j \in 1..Len(font_patterns) :
              \* a release of the archives of two keys of font_patterns
              arg = [kind |-> "nerd",
                     input |-> <<[name |-> Some(font_patterns[i][1] \o Lit.ExtZip),
                                  browser_download_url |-> Some(<<"u","1">>)],
                                 [name |-> Some(font_patterns[j][1] \o Lit.ExtZip),
                                  browser_download_url |-> Some(<<"u","2">>)]>>,
                     env |-> NoEnv]
       \/ arg \in [kind : {"openfoundry"}, input : StringsUpTo(OFRows, MaxRows),
                   env : {NoEnv}]

TransformGoogle ==
    /\ hist = <<>>
    /\ arg.kind = "google"
    /\ hist' = <<[fn |-> "transform_font", ret |-> google_transform_font(arg.input)]>>
    /\ UNCHANGED <<arg, runvars>>

TransformSquirrel ==
    /\ hist = <<>>
    /\ arg.kind = "squirrel"
    /\ hist' = <<[fn |-> "transform_font", ret |-> squirrel_transform_font(arg.input, arg.env)]>>
    /\ UNCHANGED <<arg, runvars>>

ExtractNerd ==
    /\ hist = <<>>
    /\ arg.kind = "nerd"
    /\ hist' = <<[fn |-> "extract_font_info_from_assets",
                  ret |-> extract_font_info_from_assets(arg.input)]>>
    /\ UNCHANGED <<arg, runvars>>

TranslateOpenFoundry ==
    /\ hist = <<>>
    /\ arg.kind = "openfoundry"
    /\ hist' = <<[fn |-> "translate", ret |-> OFFonts(OFGroup(arg.input))]>>
    /\ UNCHANGED <<arg, runvars>>

NextTransform ==
    TransformGoogle \/ TransformSquirrel \/ ExtractNerd \/ TranslateOpenFoundry

SpecTransform == InitTransform /\ [][NextTransform]_vars

\* the font records the call has produced
EmittedFonts ==
    IF hist = <<>> THEN {}
    ELSE LET ret == hist[1].ret
         IN  IF ret.tag = "font" THEN {ret}
             ELSE IF ret.tag = "ok" THEN {ret.val[i][2] : i \in 1..Len(ret.val)}
             ELSE {}

\* the name of a weight: the fixed name of the nine canonical weights, the
\* decimal string of any other
WeightName(weight) ==
    CASE weight = 100 -> <<"T","h","i","n">>
      [] weight = 200 -> <<"E","x","t","r","a"," ","L","i","g","h","t">>
      [] weight = 300 -> <<"L","i","g","h","t">>
      [] weight = 400 -> <<"R","e","g","u","l","a","r">>
      [] weight = 500 -> <<"M","e","d","i","u","m">>
      [] weight = 600 -> <<"S","e","m","i"," ","B","o","l","d">>
      [] weight = 700 -> <<"B","o","l","d">>
      [] weight = 800 -> <<"E","x","t","r","a"," ","B","o","l","d">>
      [] weight = 900 -> <<"B","l","a","c","k">>
      [] OTHER -> StrOfInt(weight)

\* variant v of font f is named "{family} {WeightName}", with " Italic"
\* appended exactly when its style is italic
HasDisplayName(f, v) ==
    v.name = f.family \o <<" ">> \o WeightName(v.weight)
                 \o (IF v.style = "italic" THEN <<" ","I","t","a","l","i","c">> ELSE <<>>)

\* the Google variant strings a variant record is built from: "regular",
\* "italic", a digit string, an integer followed by "italic"
IsGoogleVariantString(v) ==
    \/ v = Lit.VRegular
    \/ IsDigit(v)
    \/ EndsWith(v, Lit.VItalic)
           /\ (v = Lit.VItalic \/ IntParse(SubSeq(v, 1, Len(v) - 6)) # None)

\* C7 as amended: every variant of the Font Squirrel, Nerd Fonts and Open
\* Foundry translators, and every Google variant built from a variant string
\* other than "italic", is named "{family} {WeightName}" followed by
\* " Italic" exactly when its style is italic; the Google variant built from
\* the string "italic" has weight 400, style italic and the name
\* "{family} Italic".
C7_DisplayNameExceptGoogleItalic ==
    \A f \in EmittedFonts :
        IF arg.kind = "google"
        THEN LET built == SelectSeq(arg.input.variants, IsGoogleVariantString)
             IN  /\ Len(f.variants) = Len(built)
                 /\ \A i \in 1..Len(built) :
                        IF built[i] = Lit.VItalic
                        THEN /\ f.variants[i].name = f.family \o <<" ","I","t","a","l","i","c">>
                             /\ f.variants[i].weight = 400
                             /\ f.variants[i].style = "italic"
                        ELSE HasDisplayName(f, f.variants[i])
        ELSE \A i \in 1..Len(f.variants) : HasDisplayName(f, f.variants[i])

\* a Google font with a variant built from "italic" and a variant of the
\* non-canonical weight 450
C7_Witness ==
    /\ arg.kind = "google"
    /\ \E f \in EmittedFonts :
           /\ \E i \in 1..Len(f.variants) :
                  f.variants[i].name = f.family \o <<" ","I","t","a","l","i","c">>
           /\ \E i \in 1..Len(f.variants) :
                  f.variants[i].name = f.family \o <<" ","4","5","0">>

\* C7 as stated: every variant record built by any translator is named
\* "{family} {WeightName}", followed by " Italic" exactly when its style is
\* italic.
C7_DisplayName ==
    \A f \in EmittedFonts : \A i \in 1..Len(f.variants) : HasDisplayName(f, f.variants[i])

\* C8: in the output of every translator, every variant of every font has
\* at least one format-to-URL file entry.
C8_NoVariantWithoutFiles ==
    \A f \in EmittedFonts : \A i \in 1..Len(f.variants) : f.variants[i].files # <<>>

\* the (weight, style, file-set) tuple of a variant
TupleOf(v) == <<v.weight, v.style, {v.files[k] : k \in 1..Len(v.files)}>>

\* the elements of s whose tuple no earlier element of s has, in order
RECURSIVE FirstOccurrences(_)
FirstOccurrences(s) ==
    IF s = <<>> THEN <<>>
    ELSE LET front == SubSeq(s, 1, Len(s) - 1)
             last == s[Len(s)]
         IN  IF \E j \in 1..Len(front) : TupleOf(front[j]) = TupleOf(last)
             THEN FirstOccurrences(front)
             ELSE Append(FirstOccurrences(front), last)

IsVariant(v) == v.tag = "variant"

\* the variants built from the rows of one Open Foundry family, in input order
BuiltFromRows(family) ==
    LET rows == SelectSeq(arg.input, LAMBDA r : r.font_name = Some(family))
    IN  SelectSeq([i \in 1..Len(rows) |-> build_variant(family, rows[i])], IsVariant)

\* C9 as amended: the Open Foundry translator retains, of the rows of one
\* family that normalize to the same (weight, style, file-set) tuple, only the
\* variant built from the first, and keeps the retained variants in input
\* order, so that no Open Foundry font holds two variants with the same tuple.
C9_OpenFoundryFirstRetained ==
    arg.kind = "openfoundry" =>
        \A f \in EmittedFonts :
            /\ f.variants = FirstOccurrences(BuiltFromRows(f.family))
            /\ \A i, j \in 1..Len(f.variants) :
                   i # j => TupleOf(f.variants[i]) # TupleOf(f.variants[j])

\* an Open Foundry family of three usable rows, two with the same tuple, of
\* which two variants are retained
C9_Witness ==
    /\ arg.kind = "openfoundry"
    /\ \E f \in EmittedFonts :
           /\ Len(BuiltFromRows(f.family)) = 3
           /\ Len(f.variants) = 2

\* C9 as stated: no font emitted by any translator holds two variants with
\* the same (weight, style, file-set) tuple.
C9_NoFontWithDuplicateTuple ==
    \A f \in EmittedFonts :
        \A i, j \in 1..Len(f.variants) :
            i # j => TupleOf(f.variants[i]) # TupleOf(f.variants[j])

----------------------------------------------------------------------------
(* A translator run: main() and translate() of the four scripts and of     *)
(* translator-template.py, whose fetch_fonts returns {"items": []}.        *)
(* arg is the environment of the run,                                      *)
(*   [kind : the script, api_key : the optional value of the variable      *)
(*    GOOGLE_FONTS_API_KEY or YOUR_API_KEY (None for the scripts that read *)
(*    no key),                                                             *)
(*    env : the day and the hash seed of the run,                          *)
(*    response : Raise for a request that fails, or Ok(payload)],          *)
(* a payload being the parsed JSON body: [t |-> "list", elems |-> list]    *)
(* or [t |-> "dict", items |-> optional list].                             *)

MaxItems == 3

\* translator.translate(limit=50) in main() of the Font Squirrel script
limit == 50

JList(elems) == [t |-> "list", elems |-> elems]

JDict(list) == [t |-> "dict", items |-> list]

\* the items, assets and rows the responses are made of
RunGoogleItems ==
    {[family |-> Some(Sample.TestFont), category |-> Some(Sample.SansSerifRaw),
      variants |-> <<Lit.VRegular, Sample.V700Italic>>, files |-> GoogleFilesAll,
      subsets |-> Sample.Subsets, description |-> Some(<<"d">>), designer |-> None],
     [family |-> Some(Sample.MonoFont), category |-> None,
      variants |-> <<Lit.VItalic>>, files |-> GoogleFilesPartial,
      subsets |-> <<>>, description |-> None, designer |-> Some(<<"x">>)],
     [family |-> None, category |-> None,
      variants |-> <<Lit.VRegular>>, files |-> GoogleFilesAll,
      subsets |-> <<>>, description |-> None, designer |-> None],
     [family |-> Some(Sample.TestFont), category |-> None,
      variants |-> <<Sample.VBoldItalic>>, files |-> GoogleFilesAll,
      subsets |-> <<>>, description |-> None, designer |-> None],
     [family |-> Some(Sample.TestFontHyphen), category |-> None,
      variants |-> <<Sample.V700>>, files |-> GoogleFilesAll,
      subsets |-> <<>>, description |-> None, designer |-> None]}

RunSquirrelItems ==
    {[family_name |-> Some(Sample.TestFont),
      family_urlname |-> Some(<<"t","e","s","t","-","f","o","n","t">>),
      classification |-> Some(JStr(<<"S","a","n","s","-","S","e","r","i","f">>)),
      description |-> Some(<<"d">>), designer |-> Some(<<"x">>),
      foundry |-> None, date_added |-> Some(IsoDate(100, FALSE))],
     [family_name |-> Some(Sample.MonoFont),
      family_urlname |-> Some(<<"m","o","n","o">>),
      classification |-> None,
      description |-> None, designer |-> None,
      foundry |-> Some(<<"x">>), date_added |-> Some(IsoDate(100, TRUE))],
     [family_name |-> None,
      family_urlname |-> Some(<<"m","o","n","o">>),
      classification |-> None,
      description |-> None, designer |-> None,
      foundry |-> None, date_added |-> None],
     [family_name |-> Some(Sample.TestFont),
      family_urlname |-> Some(<<"t","e","s","t","-","f","o","n","t">>),
      classification |-> Some(JNull),
      description |-> None, designer |-> None,
      foundry |-> None, date_added |-> None],
     [family_name |-> Some(Sample.TestFontHyphen),
      family_urlname |-> Some(<<"t","f">>),
      classification |-> None,
      description |-> None, designer |-> None,
      foundry |-> None, date_added |-> None],
     [family_name |-> Some(Sample.MonoFont),
      family_urlname |-> None,
      classification |-> None,
      description |-> None, designer |-> None,
      foundry |-> None, date_added |-> None]}

RunNerdAssets ==
    {[name |-> Some(<<"F","i","r","a","C","o","d","e",".","z","i","p">>),
      browser_download_url |-> Some(<<"u","1">>)],
     [name |-> Some(<<"H","a","c","k","-","B","o","l","d",".","z","i","p">>),
      browser_download_url |-> Some(<<"u","2">>)],
     [name |-> Some(<<"r","e","a","d","m","e",".","m","d">>),
      browser_download_url |-> Some(<<"u","1">>)],
     [name |-> None, browser_download_url |-> Some(<<"u","1">>)],
     [name |-> Some(<<"m","y","_","f","o","n","t",".","z","i","p">>),
      browser_download_url |-> Some(<<"u","1">>)],
     [name |-> Some(<<"m","y",".","f","o","n","t",".","t","a","r",".","x","z">>),
      browser_download_url |-> Some(<<"u","2">>)]}

RunOFRows ==
    {Row(Some(Sample.TestFont), Some(JNum(700)), Some(JStr(<<"I","t","a","l","i","c">>)),
         Some(JStr(Sample.UrlRTtf)), Some(JStr(Sample.SansSerifRaw))),
     Row(Some(Sample.MonoFont), Some(JStr(Sample.V450)), None,
         Some(JStr(Sample.UrlATarGz)), None),
     Row(Some(Sample.TestFont), Some(JNum(700)), None, Some(JStr(<<>>)), None),
     Row(Some(Sample.MonoFont), Some(JNum(700)), None, Some(JStr(Sample.UrlRTtf)),
         Some(JNum(5))),
     Row(Some(Sample.TestFontHyphen), None, None, Some(JStr(Sample.UrlIOtf)), None)}

\* the responses a request can meet: a failure, a body of the wrong
\* top-level type, a body without the expected container, a well-formed
\* body; for Font Squirrel also a list of limit + 1 items, the last of them
\* the only one named "Test Font"
Responses(kind) ==
    {Raise} \cup
    CASE kind = "google" ->
             {Ok(JList(<<>>)), Ok(JDict(None))}
                 \cup {Ok(JDict(Some(l))) : l \in StringsUpTo(RunGoogleItems, MaxItems)}
      [] kind = "squirrel" ->
             {Ok(JDict(None))}
                 \cup {Ok(JList(l)) : l \in StringsUpTo(RunSquirrelItems, MaxItems)}
                 \cup {Ok(JList(Append(Copies(x, limit), y))) :
                          x \in {r \in RunSquirrelItems :
                                    r.family_name = Some(Sample.TestFontHyphen)},
                          y \in {r \in RunSquirrelItems :
                                    /\ r.family_name = Some(Sample.TestFont)
                                    /\ r.classification # Some(JNull)}}
      [] kind = "nerd" ->
             {Ok(JDict(None)), Ok(JList(<<>>))}
                 \cup {Ok(JList(<<[assets |-> l]>>)) :
                          l \in StringsUpTo(RunNerdAssets, MaxItems)}
      [] kind = "openfoundry" ->
             {Ok(JDict(None))}
                 \cup {Ok(JList(l)) : l \in StringsUpTo(RunOFRows, MaxItems)}

InitRun ==
    /\ hist = <<>>
    /\ \/ arg \in [kind : {"google"}, api_key : {None, Some(<<>>), Some(<<"k">>)},
                   env : {NoEnv},
                   response : Responses("google")]
       \/ arg \in [kind : {"squirrel"}, api_key : {None}, env : Envs,
                   response : Responses("squirrel")]
       \/ arg \in [kind : {"nerd"}, api_key : {None}, env : {NoEnv},
                   response : Responses("nerd")]
       \/ arg \in [kind : {"openfoundry"}, api_key : {None}, env : {NoEnv},
                   response : Responses("openfoundry")]
       \/ arg \in [kind : {"template"}, api_key : {None, Some(<<"k">>)}, env : {NoEnv},
                   response : {Ok(JDict(Some(<<>>)))}]
    /\ pc = "main"
    /\ raw_items = <<>>
    /\ idx = 0
    /\ font_map = <<>>
    /\ warnings = <<>>
    /\ source_data = None
    /\ output_file = OldFile
    /\ writes = 0
    /\ exit_code = None

\* self.api_key = api_key or os.getenv("GOOGLE_FONTS_API_KEY")
ApiKey(api_key, environ) == IF IsTruthy(api_key) THEN api_key ELSE environ

\* a constructor that takes any key, a missing one included
ConstructWithoutKeyCheck ==
    /\ pc = "main"
    /\ pc' = "fetch"
    /\ UNCHANGED <<arg, hist, raw_items, idx, font_map, warnings, source_data,
                   output_file, writes, exit_code>>

\* translator = ...Translator() in main(), without an argument: the
\* constructors of the Google script and of the template raise ValueError
\* when they have no API key
Construct ==
    /\ pc = "main"
    /\ pc' = IF /\ arg.kind \in {"google", "template"}
                /\ ~IsTruthy(ApiKey(None, arg.api_key))
             THEN "except" ELSE "fetch"
    /\ UNCHANGED <<arg, hist, raw_items, idx, font_map, warnings, source_data,
                   output_file, writes, exit_code>>

\* a fetch that hands every item of the response to the loop
FetchItemsUnlimited(kind, response) ==
    IF response.tag = "raise" THEN Raise
    ELSE LET body == response.val
         IN  CASE kind = "google" ->
                      IF body.t # "dict" THEN Raise
                      ELSE IF body.items = None THEN Ok(<<>>)
                      ELSE Ok(body.items[1])
               [] kind = "squirrel" ->
                      IF body.t # "list" THEN Raise ELSE Ok(body.elems)
               [] kind = "nerd" ->
                      IF body.t # "list" THEN Raise
                      ELSE IF body.elems = <<>> THEN Raise
                      ELSE Ok(body.elems[1].assets)
               [] kind = "openfoundry" ->
                      IF body.t # "list" THEN Raise
                      ELSE Ok(OFGroup(body.elems))
               [] kind = "template" ->
                      Ok(body.items[1])

\* the part of translate() before the transform loop: the request and what
\* is read from its body; Ok(the list the loop runs over) or Raise
FetchItems(kind, response) ==
    IF response.tag = "raise" THEN Raise    \* requests exception, raise_for_status
    ELSE LET body == response.val
         IN  CASE kind = "google" ->
                      IF body.t # "dict" THEN Raise      \* raw_data.get: AttributeError
                      ELSE IF body.items = None THEN Ok(<<>>)
                      ELSE Ok(body.items[1])
               [] kind = "squirrel" ->
                      IF body.t # "list" THEN Raise      \* raw_data[:limit]
                      ELSE IF Len(body.elems) > limit
                           THEN Ok(SubSeq(body.elems, 1, limit))
                           ELSE Ok(body.elems)
               [] kind = "nerd" ->
                      IF body.t # "list" THEN Raise      \* ValueError or KeyError
                      ELSE IF body.elems = <<>> THEN Raise   \* "No releases found"
                      ELSE Ok(body.elems[1].assets)
               [] kind = "openfoundry" ->
                      IF body.t # "list" THEN Raise      \* "Unexpected ... shape"
                      ELSE Ok(OFGroup(body.elems))
               [] kind = "template" ->
                      Ok(body.items[1])   \* fetch_fonts returns {"items": []}

\* a fetch whose failed request counts as an empty list of items
FetchIgnoringFailure ==
    /\ pc = "fetch"
    /\ LET fetched == FetchItems(arg.kind, arg.response)
       IN  /\ pc' = "transform"
           /\ raw_items' = IF fetched.tag = "raise" THEN <<>> ELSE fetched.val
           /\ idx' = 1
    /\ UNCHANGED <<arg, hist, font_map, warnings, source_data, output_file,
                   writes, exit_code>>

Fetch ==
    /\ pc = "fetch"
    /\ LET fetched == FetchItems(arg.kind, arg.response)
       IN  IF fetched.tag = "raise"
           THEN pc' = "except" /\ UNCHANGED <<raw_items, idx>>
           ELSE pc' = "transform" /\ raw_items' = fetched.val /\ idx' = 1
    /\ UNCHANGED <<arg, hist, font_map, warnings, source_data, output_file,
                   writes, exit_code>>

\* a Google loop that keys the fonts dict by the family as fetched
StoreGoogleByFamily(dict, font_data, transformed) ==
    IF transformed.tag = "raise" THEN Raise
    ELSE Ok(DictSet(dict, font_data.family[1], transformed))

\* fonts[font_id] = transformed of the Google loop: Ok(the fonts dict
\* after it), or Raise when transform_font has raised
StoreGoogle(dict, font_data, transformed) ==
    IF transformed.tag = "raise" THEN Raise
    ELSE Ok(DictSet(dict, clean_id(font_data.family[1]), transformed))

\* a Font Squirrel loop that leaves an id alone once it is taken
StoreSquirrelKeepingFirst(dict, font_data, transformed) ==
    IF transformed.tag = "raise" THEN Raise
    ELSE IF transformed.tag = "none" THEN Ok(dict)
    ELSE IF DictHas(dict, clean_id(font_data.family_name[1])) THEN Ok(dict)
    ELSE Ok(DictSet(dict, clean_id(font_data.family_name[1]), transformed))

\* `if transformed: fonts[font_id] = transformed` of the Font Squirrel loop
StoreSquirrel(dict, font_data, transformed) ==
    IF transformed.tag = "raise" THEN Raise
    ELSE IF transformed.tag = "none" THEN Ok(dict)
    ELSE Ok(DictSet(dict, clean_id(font_data.family_name[1]), transformed))

\* `if not variants: continue` and fonts[font_id] = {...} of the Open
\* Foundry loop
StoreOpenFoundry(dict, family, font) ==
    IF font.tag = "raise" THEN Raise
    ELSE IF font.val = None THEN Ok(dict)
    ELSE Ok(DictSet(dict, clean_id(family), font.val[1]))

\* the body of the transform loop for one item: Ok(the fonts dict after
\* it) or Raise
TransformOne(kind, dict, item, env) ==
    CASE kind = "google" -> StoreGoogle(dict, item, google_transform_font(item))
      [] kind = "squirrel" ->
             StoreSquirrel(dict, item, squirrel_transform_font(item, env))
      [] kind = "nerd" -> NerdAsset(dict, item)
      [] kind = "openfoundry" ->
             StoreOpenFoundry(dict, item[1], OFFamily(item[1], item[2]))

\* the loops of the Google and Font Squirrel scripts wrap their body in
\* try/except Exception; the loops of the other two do not
CatchesPerItem(kind) == kind \in {"google", "squirrel"}

\* the pass has ended normally with the fonts dict result.val
Stored(result) ==
    /\ result.tag = "ok"
    /\ font_map' = result.val

\* one pass of the loop that ends normally
TransformItem ==
    /\ pc = "transform"
    /\ idx <= Len(raw_items)
    /\ Stored(TransformOne(arg.kind, font_map, raw_items[idx], arg.env))
    /\ idx' = idx + 1
    /\ UNCHANGED <<arg, hist, pc, raw_items, warnings, source_data, output_file,
                   writes, exit_code>>

\* one pass whose exception the loop catches: print the warning, continue
SkipItem ==
    /\ pc = "transform"
    /\ idx <= Len(raw_items)
    /\ TransformOne(arg.kind, font_map, raw_items[idx], arg.env).tag = "raise"
    /\ CatchesPerItem(arg.kind)
    /\ warnings' = Append(warnings, idx)
    /\ idx' = idx + 1
    /\ UNCHANGED <<arg, hist, pc, raw_items, font_map, source_data, output_file,
                   writes, exit_code>>

\* one pass whose exception leaves translate()
TransformRaises ==
    /\ pc = "transform"
    /\ idx <= Len(raw_items)
    /\ TransformOne(arg.kind, font_map, raw_items[idx], arg.env).tag = "raise"
    /\ ~CatchesPerItem(arg.kind)
    /\ pc' = "except"
    /\ UNCHANGED <<arg, hist, raw_items, idx, font_map, warnings, source_data,
                   output_file, writes, exit_code>>

\* a source structure that counts the fetched items
SourceDataOfFetched(dict) == [total_fonts |-> Len(raw_items), fonts |-> dict]

\* the source structure translate() returns
SourceData(dict) == [total_fonts |-> Len(dict), fonts |-> dict]

Aggregate ==
    /\ pc = "transform"
    /\ idx > Len(raw_items)
    /\ source_data' = Some(SourceData(font_map))
    /\ pc' = "write"
    /\ UNCHANGED <<arg, hist, raw_items, idx, font_map, warnings, output_file,
                   writes, exit_code>>

\* open(output_file, "w"), json.dump, the success message, return 0
Write ==
    /\ pc = "write"
    /\ output_file' = source_data[1]
    /\ writes' = writes + 1
    /\ exit_code' = Some(0)
    /\ pc' = "done"
    /\ UNCHANGED <<arg, hist, raw_items, idx, font_map, warnings, source_data>>

\* a main() whose except branch falls through to `return 0`
FailReturnsZero ==
    /\ pc = "except"
    /\ exit_code' = Some(0)
    /\ pc' = "done"
    /\ UNCHANGED <<arg, hist, raw_items, idx, font_map, warnings, source_data,
                   output_file, writes>>

\* except Exception in main(): print the error, return 1
Fail ==
    /\ pc = "except"
    /\ exit_code' = Some(1)
    /\ pc' = "done"
    /\ UNCHANGED <<arg, hist, raw_items, idx, font_map, warnings, source_data,
                   output_file, writes>>

NextRun ==
    \/ Construct
    \/ Fetch
    \/ TransformItem
    \/ SkipItem
    \/ TransformRaises
    \/ Aggregate
    \/ Write
    \/ Fail

SpecRun == InitRun /\ [][NextRun]_vars

\* C10: in each of the four translators a failure while transforming one
\* fetched item never aborts the run: once the items are fetched the run
\* never enters the error exit, and it ends with the output written and
\* exit code 0.
C10_TransformFailureNeverAborts ==
    /\ pc = "except" => idx = 0
    /\ pc = "done" /\ idx > 0 =>
           /\ exit_code = Some(0)
           /\ writes = 1
           /\ output_file # OldFile

----------------------------------------------------------------------------
(* The order of a run.                                                     *)

\* the steps main() can take from one position to the next
RunOrder ==
    {<<"main", "fetch">>, <<"main", "except">>,
     <<"fetch", "transform">>, <<"fetch", "except">>,
     <<"transform", "transform">>, <<"transform", "write">>,
     <<"transform", "except">>,
     <<"write", "done">>, <<"except", "done">>}

\* one step of a run keeps the order: it moves along RunOrder, a step inside
\* the loop handles exactly the next item, and the output file changes only
\* in the step that leaves "write", with every item handled and no earlier
\* write
OrderedStep ==
    /\ <<pc, pc'>> \in RunOrder
    /\ pc = "transform" /\ pc' = "transform" =>
           idx <= Len(raw_items) /\ idx' = idx + 1 /\ raw_items' = raw_items
    /\ pc = "transform" /\ pc' = "write" => idx = Len(raw_items) + 1
    /\ (output_file' # output_file \/ writes' # writes) =>
           /\ pc = "write" /\ pc' = "done"
           /\ idx = Len(raw_items) + 1
           /\ writes = 0 /\ writes' = 1
           /\ exit_code' = Some(0)

\* C11: every translator run follows Init, Fetch, per-item Transform or
\* Skip, Aggregate, Write in that order: the output file is opened for
\* writing at most once per run and only after the fetch has succeeded and
\* every item has been transformed or skipped, and the run ends with exit
\* code 0 only in the Written state and with exit code 1 in every other
\* terminal state.
C11_RunOrder ==
    /\ [][OrderedStep]_vars
    /\ [](/\ writes <= 1
          /\ pc # "done" => exit_code = None /\ writes = 0 /\ output_file = OldFile
          /\ pc = "done" =>
                 \/ exit_code = Some(0) /\ writes = 1 /\ idx = Len(raw_items) + 1
                 \/ exit_code = Some(1) /\ writes = 0 /\ output_file = OldFile)

\* a run that has fetched three items, skipped one, transformed the others
\* and written its output
C11_Witness ==
    /\ pc = "done"
    /\ exit_code = Some(0)
    /\ writes = 1
    /\ Len(raw_items) = 3
    /\ Len(warnings) = 1
    /\ Len(font_map) >= 1

\* C12: when the request of a translator fails (a request exception or a
\* non-2xx status) the run transforms nothing, writes nothing, leaves the
\* existing output file as it was and ends with exit code 1.
C12_FetchFailureLeavesOutput ==
    arg.response.tag = "raise" =>
        /\ pc \in {"main", "fetch", "except", "done"}
        /\ idx = 0 /\ raw_items = <<>> /\ font_map = <<>> /\ warnings = <<>>
        /\ source_data = None
        /\ writes = 0
        /\ output_file = OldFile
        /\ pc = "done" => exit_code = Some(1)

\* a Nerd Fonts run whose request has failed, after its exit
C12_Witness ==
    /\ arg.kind = "nerd"
    /\ arg.response.tag = "raise"
    /\ pc = "done"
    /\ exit_code = Some(1)
    /\ output_file = OldFile

\* C13: a Google run without an API key (GOOGLE_FONTS_API_KEY unset or
\* empty, no constructor argument) never reaches the fetch step, the only
\* step that issues a request: it fails in the constructor, writes nothing
\* and ends with exit code 1.
C13_NoKeyNoRequest ==
    arg.kind = "google" /\ arg.api_key \in {None, Some(<<>>)} =>
        /\ pc \in {"main", "except", "done"}
        /\ idx = 0 /\ raw_items = <<>> /\ font_map = <<>>
        /\ writes = 0
        /\ output_file = OldFile
        /\ pc = "done" => exit_code = Some(1)

\* a Google run with an empty GOOGLE_FONTS_API_KEY and a well-formed
\* response waiting, after its exit
C13_Witness ==
    /\ arg.kind = "google"
    /\ arg.api_key = Some(<<>>)
    /\ arg.response.tag = "ok"
    /\ pc = "done"
    /\ exit_code = Some(1)

\* the body of the response is not the envelope the script expects: it has
\* the wrong top-level type, or it is a Google object without "items"
MalformedEnvelope(kind, response) ==
    /\ response.tag = "ok"
    /\ IF kind = "google"
       THEN response.val.t # "dict" \/ response.val.items = None
       ELSE response.val.t # "list"

\* C14: a response whose top-level JSON envelope is malformed for its
\* source (wrong top-level type, or the expected container such as Google's
\* "items" missing) is fatal in every translator: the run writes no output
\* document and ends with a non-zero exit code.
C14_MalformedEnvelopeFatal ==
    MalformedEnvelope(arg.kind, arg.response) =>
        /\ writes = 0
        /\ output_file = OldFile
        /\ pc = "done" => exit_code = Some(1)

----------------------------------------------------------------------------
(* Determinism, popularity and variants of the emitted records.            *)

\* what the call of the harness returns for input x under environment e
ResultUnder(kind, x, e) ==
    CASE kind = "google" -> google_transform_font(x)
      [] kind = "squirrel" -> squirrel_transform_font(x, e)
      [] kind = "nerd" -> extract_font_info_from_assets(x)
      [] kind = "openfoundry" -> OFFonts(OFGroup(x))

\* C15: translation is deterministic in the fetched input: what a translator
\* makes of an input (keys, field values, the order of every list, tags and
\* popularity included) is the same under every day of the clock and every
\* iteration order of sets, so two runs on identical input agree.
C15_Deterministic ==
    hist # <<>> =>
        \A e \in Envs : ResultUnder(arg.kind, arg.input, e) = hist[1].ret

\* the (weight, style) of a supported Google variant string
GoogleExpected(v) ==
    IF v = Lit.VRegular THEN <<400, "normal">>
    ELSE IF v = Lit.VItalic THEN <<400, "italic">>
    ELSE IF IsDigit(v) THEN <<IntOf(v), "normal">>
    ELSE <<IntParse(SubSeq(v, 1, Len(v) - 6))[1], "italic">>

\* a variant string that ends in "italic" after something that is no number
IsBadItalicString(v) ==
    /\ EndsWith(v, Lit.VItalic)
    /\ ~IsGoogleVariantString(v)

\* the variants of font f are those of the strings vs, one for one, in order
VariantsFollow(f, vs) ==
    /\ Len(f.variants) = Len(vs)
    /\ \A i \in 1..Len(vs) :
           <<f.variants[i].weight, f.variants[i].style>> = GoogleExpected(vs[i])

\* the fonts dict of a run whose only item is x, transformed to ret, has the
\* one entry <<slug of the family, a font of that name with variants for vs>>
OneEntryFor(x, ret, vs) ==
    LET stored == StoreGoogle(<<>>, x, ret)
    IN  /\ stored.tag = "ok"
        /\ Len(stored.val) = 1
        /\ stored.val[1][1] = clean_id(x.family[1])
        /\ stored.val[1][2].name = x.family[1]
        /\ VariantsFollow(stored.val[1][2], vs)

----------------------------------------------------------------------------
(* The keys of the fonts map.                                              *)

\* every key of the fonts dict is the slug of the name of its record, and
\* no key occurs twice
KeyedBySlug(dict) ==
    /\ \A i \in 1..Len(dict) : dict[i][1] = clean_id(dict[i][2].name)
    /\ \A i, j \in 1..Len(dict) : i # j => dict[i][1] # dict[j][1]

\* C17: in the fonts map a translator builds and in the source document it
\* writes, every key equals slugify(name) of the font record stored under
\* it, and no key occurs twice.
C17_KeyIsSlugOfName ==
    /\ KeyedBySlug(font_map)
    /\ source_data # None => KeyedBySlug(source_data[1].fonts)
    /\ writes = 1 => KeyedBySlug(output_file.fonts)

\* a written document of two fonts made from three fetched items
C17_Witness ==
    /\ pc = "done"
    /\ writes = 1
    /\ Len(raw_items) = 3
    /\ Len(output_file.fonts) = 2
    /\ output_file.total_fonts = 2

\* C18: the popularity of every font record emitted by any translator is an
\* integer between 0 and 100 inclusive, whatever the counts of variants,
\* subsets or font files and whichever bonuses apply; so is every score of
\* the Nerd Fonts table.
C18_PopularityInRange ==
    /\ \A f \in EmittedFonts : f.popularity \in 0..100
    /\ \A i \in 1..Len(popular_fonts) : popular_fonts[i][2] \in 0..100

\* a Google item of seven variants and seven subsets with a description and
\* a designer, whose score of 50 + 30 + 10 + 10 is the cap itself
C18_Witness ==
    /\ arg.kind = "google"
    /\ Len(arg.input.variants) = 7
    /\ Len(arg.input.subsets) = 7
    /\ \E f \in EmittedFonts : f.popularity = 100

\* the variants of the emitted fonts
EmittedVariants ==
    UNION {{f.variants[i] : i \in 1..Len(f.variants)} : f \in EmittedFonts}

\* C19 as amended: every variant record emitted by any translator has a
\* style that is exactly "normal" or "italic" and an integer weight: 400 in
\* Font Squirrel, 400 or 700 in Nerd Fonts, any integer from 100 to 900 in
\* Open Foundry (450 included), and in Google 400 or the integer written in
\* the variant string, whatever it is (450, 50 and -5 included).
C19_StyleAndIntegerWeight ==
    \A v \in EmittedVariants :
        /\ v.style \in {"normal", "italic"}
        /\ v.weight \in Int
        /\ arg.kind = "squirrel" => v.weight = 400
        /\ arg.kind = "nerd" => v.weight \in {400, 700}
        /\ arg.kind = "openfoundry" => v.weight \in 100..900
        /\ arg.kind = "google" =>
               \E i \in 1..Len(arg.input.variants) :
                   /\ IsGoogleVariantString(arg.input.variants[i])
                   /\ <<v.weight, v.style>> = GoogleExpected(arg.input.variants[i])

\* an Open Foundry variant of weight 450 built from a row whose weight
\* column is "450"
C19_Witness ==
    /\ arg.kind = "openfoundry"
    /\ \E v \in EmittedVariants : v.weight = 450

\* C19 as stated: every variant record emitted by any translator has a
\* style that is exactly "normal" or "italic" and an integer weight that is
\* one of 100, 200, ..., 900.
C19_CanonicalWeight ==
    \A v \in EmittedVariants :
        /\ v.style \in {"normal", "italic"}
        /\ v.weight \in {100 * k : k \in 1..9}

----------------------------------------------------------------------------
(* Validator: SourceValidator.validate_file of validate-sources.py.        *)
(* arg is the file: [t |-> "unreadable"] for a path open() fails on,       *)
(* [t |-> "text"] for text that is no JSON, JList for a JSON array, or a   *)
(* JSON object                                                             *)
(*   [t |-> "object", source_info : optional value,                        *)
(*    fonts : optional JNull, JList or [t |-> "map", entries : a list of   *)
(*            <<font id, font>>]],                                         *)
(* a font being JNull or [t |-> "font", popularity : optional value,       *)
(* variants : optional JList or JNull]. A warning or error is a tuple of   *)
(* its text and the number it ends with, if any.                           *)

MaxFonts == 2

\* the values under the keys of "fonts"
ValidatorFonts ==
    {JNull} \cup
    [t : {"font"}, popularity : {None, Some(50)},
     variants : {None, Some(JNull), Some(JList(<<>>)), Some(JList(<<"v">>)),
                 Some(JList(<<"v", "v">>))}]

\* a path that cannot be opened, text that is no JSON, an array, and the
\* objects with or without "source_info" and "fonts", the latter null, an
\* array or an object of at most MaxFonts entries under the keys a, b, ...
ValidatorFiles ==
    {[t |-> "unreadable"], [t |-> "text"], JList(<<>>)} \cup
    {[t |-> "object", source_info |-> s, fonts |-> f] :
        s \in {None, Some(JNull)},
        f \in {None, Some(JNull), Some(JList(<<>>))}
                 \cup {Some([t |-> "map",
                             entries |-> [i \in 1..Len(l) |-> <<LowerChars[i], l[i]>>]]) :
                          l \in StringsUpTo(ValidatorFonts, MaxFonts)}}

\* the errors of the schema that do not depend on the font records: the
\* document is an object that has "source_info" and "fonts", the latter an
\* object
schema_errors(data) ==
    IF data.t # "object" THEN << <<"", "is not of type 'object'">> >>
    ELSE (IF data.source_info = None
          THEN << <<"", "'source_info' is a required property">> >> ELSE <<>>)
         \o (IF data.fonts = None
             THEN << <<"", "'fonts' is a required property">> >>
             ELSE IF data.fonts[1].t # "map"
             THEN << <<"fonts", "is not of type 'object'">> >>
             ELSE <<>>)

\* a _check_warnings that looks for an empty source only when "fonts" is
\* there
check_warnings_of_present_fonts(data) ==
    IF data.t # "object" THEN Raise
    ELSE IF data.fonts = None THEN Ok(<<>>)
    ELSE Ok(<< <<"No fonts found in source">> >>)

\* a _check_warnings that takes a font without variants for a font with one
check_warnings_at_most_one_variant(data) ==
    IF data.t # "object" THEN Raise
    ELSE IF data.fonts = None THEN Ok(<< <<"No fonts found in source">> >>)
    ELSE IF data.fonts[1].t # "map" THEN Raise
    ELSE LET entries == data.fonts[1].entries
         IN  IF \E i \in 1..Len(entries) :
                    \/ entries[i][2].t # "font"
                    \/ entries[i][2].variants = Some(JNull)
             THEN Raise
             ELSE LET fonts_without_popularity ==
                          Cardinality({i \in 1..Len(entries) :
                                          entries[i][2].popularity = None})
                      single_variant_fonts ==
                          Cardinality({i \in 1..Len(entries) :
                                          \/ entries[i][2].variants = None
                                          \/ Len(entries[i][2].variants[1].elems) <= 1})
                  IN  Ok((IF entries = <<>>
                          THEN << <<"No fonts found in source">> >> ELSE <<>>)
                         \o (IF fonts_without_popularity > 0
                             THEN << <<"Fonts without popularity data: ",
                                       fonts_without_popularity>> >>
                             ELSE <<>>)
                         \o (IF single_variant_fonts > 0
                             THEN << <<"Fonts with only one variant: ",
                                       single_variant_fonts>> >>
                             ELSE <<>>))

\* _check_warnings(data): Ok(warnings), or Raise for an AttributeError or
\* TypeError (data or "fonts" without .get or .items, a font that is null,
\* "variants" that is null)
check_warnings(data) ==
    IF data.t # "object" THEN Raise                 \* data.get
    ELSE IF data.fonts = None THEN Ok(<< <<"No fonts found in source">> >>)
    ELSE IF data.fonts[1].t # "map" THEN Raise      \* fonts.items
    ELSE LET entries == data.fonts[1].entries
         IN  IF \E i \in 1..Len(entries) :
                    \/ entries[i][2].t # "font"     \* "popularity" not in None
                    \/ entries[i][2].variants = Some(JNull)        \* len(None)
             THEN Raise
             ELSE LET fonts_without_popularity ==
                          Cardinality({i \in 1..Len(entries) :
                                          entries[i][2].popularity = None})
                      single_variant_fonts ==
                          Cardinality({i \in 1..Len(entries) :
                                          /\ entries[i][2].variants # None
                                          /\ Len(entries[i][2].variants[1].elems) = 1})
                  IN  Ok((IF entries = <<>>
                          THEN << <<"No fonts found in source">> >> ELSE <<>>)
                         \o (IF fonts_without_popularity > 0
                             THEN << <<"Fonts without popularity data: ",
                                       fonts_without_popularity>> >>
                             ELSE <<>>)
                         \o (IF single_variant_fonts > 0
                             THEN << <<"Fonts with only one variant: ",
                                       single_variant_fonts>> >>
                             ELSE <<>>))

\* a validate_file without its `except Exception`
validate_file_uncaught(file_path, file, deep) ==
    IF file.t = "text"
    THEN [valid |-> FALSE, file |-> file_path,
          errors |-> << <<"JSON syntax error">> >>, warnings |-> <<>>]
    ELSE IF file.t = "unreadable" THEN Raise
    ELSE LET errors == schema_errors(file) \o deep
         IN  IF check_warnings(file).tag = "raise" THEN Raise
             ELSE [valid |-> errors = <<>>, file |-> file_path,
                   errors |-> errors, warnings |-> check_warnings(file).val]

\* validate_file(file_path) for a file of content file, the schema finding
\* errors and, in the font records of a well-formed map, the errors deep
validate_file(file_path, file, deep) ==
    IF file.t = "text"
    THEN [valid |-> FALSE, file |-> file_path,
          errors |-> << <<"JSON syntax error">> >>, warnings |-> <<>>]
    ELSE IF file.t = "unreadable"                   \* open() raises OSError
    THEN [valid |-> FALSE, file |-> file_path,
          errors |-> << <<"Validation error">> >>, warnings |-> <<>>]
    ELSE LET errors == schema_errors(file) \o deep
         IN  IF check_warnings(file).tag = "raise"
             THEN [valid |-> FALSE, file |-> file_path,
                   errors |-> << <<"Validation error">> >>, warnings |-> <<>>]
             ELSE [valid |-> errors = <<>>, file |-> file_path,
                   errors |-> errors, warnings |-> check_warnings(file).val]

InitValidate ==
    /\ hist = <<>>
    /\ RunIdle
    /\ arg \in ValidatorFiles

\* one call of validate_file; what the schema says of the font records is
\* not fixed here: it finds nothing, or one more error
ValidateFile ==
    /\ hist = <<>>
    /\ \E deep \in {<<>>, << <<"fonts -> a", "schema error">> >>} :
           /\ deep # <<>> =>
                  /\ arg.t = "object"
                  /\ arg.fonts # None
                  /\ arg.fonts[1].t = "map"
                  /\ arg.fonts[1].entries # <<>>
           /\ hist' = <<[fn |-> "validate_file",
                         ret |-> validate_file(<<"f">>, arg, deep)]>>
    /\ UNCHANGED <<arg, runvars>>

SpecValidate == InitValidate /\ [][ValidateFile]_vars

\* C20: validating a JSON object document that has no fonts key yields a
\* result with valid = false, at least one schema error in errors, and the
\* warning "No fonts found in source" in warnings.
C20_MissingFontsKey ==
    hist # <<>> /\ arg.t = "object" /\ arg.fonts = None =>
        LET ret == hist[1].ret
        IN  /\ ret.valid = FALSE
            /\ \E i \in 1..Len(ret.errors) :
                   ret.errors[i] = <<"", "'fonts' is a required property">>
            /\ \E i \in 1..Len(ret.warnings) :
                   ret.warnings[i] = <<"No fonts found in source">>

\* a validated object that has source_info and no fonts key
C20_Witness ==
    /\ hist # <<>>
    /\ arg.t = "object"
    /\ arg.source_info # None
    /\ arg.fonts = None
    /\ hist[1].ret.valid = FALSE

\* the fonts of a document whose "fonts", if there, is an object of font
\* objects with "variants" lists: the documents the heuristics are defined on
FontsRead(data) ==
    IF data.fonts = None THEN <<>>
    ELSE [i \in 1..Len(data.fonts[1].entries) |-> data.fonts[1].entries[i][2]]

Parsable(data) ==
    /\ data.t = "object"
    /\ data.fonts # None => data.fonts[1].t = "map"
    /\ \A i \in 1..Len(FontsRead(data)) :
           /\ FontsRead(data)[i].t = "font"
           /\ FontsRead(data)[i].variants # Some(JNull)

\* C22: for a schema-parsable document the validator's warnings are exactly
\* the applicable heuristics: "No fonts found in source" iff fonts is absent
\* or empty, a missing-popularity warning carrying the count n iff n >= 1
\* fonts lack a popularity field, and a single-variant warning carrying the
\* count m iff m >= 1 fonts have exactly one variant; warnings never change
\* the valid flag, which is true exactly when there are no errors.
C22_WarningsAreTheHeuristics ==
    hist # <<>> /\ Parsable(arg) =>
        LET ret == hist[1].ret
            read == FontsRead(arg)
            n == Cardinality({i \in 1..Len(read) : read[i].popularity = None})
            m == Cardinality({i \in 1..Len(read) :
                                 /\ read[i].variants # None
                                 /\ Len(read[i].variants[1].elems) = 1})
            given == {ret.warnings[i] : i \in 1..Len(ret.warnings)}
        IN  /\ Len(ret.warnings) = Cardinality(given)
            /\ given = (IF read = <<>> THEN {<<"No fonts found in source">>} ELSE {})
                       \cup (IF n >= 1
                             THEN {<<"Fonts without popularity data: ", n>>} ELSE {})
                       \cup (IF m >= 1
                             THEN {<<"Fonts with only one variant: ", m>>} ELSE {})
            /\ ret.valid <=> ret.errors = <<>>

\* a valid document of two fonts, one without popularity and both with one
\* variant, validated with two warnings
C22_Witness ==
    /\ hist # <<>>
    /\ Parsable(arg)
    /\ hist[1].ret.valid
    /\ hist[1].ret.warnings = << <<"Fonts without popularity data: ", 1>>,
                                 <<"Fonts with only one variant: ", 2>> >>

\* C26: validate_file never raises: for any file content (invalid JSON, a
\* non-object top level, a fonts value that is not a mapping, font entries
\* that are not objects) it returns a result with valid, file, errors and
\* warnings, and in every result valid is true if and only if errors is
\* empty.
C26_ValidateFileNeverRaises ==
    hist # <<>> =>
        LET ret == hist[1].ret
        IN  /\ DOMAIN ret = {"valid", "file", "errors", "warnings"}
            /\ ret.valid \in BOOLEAN
            /\ ret.valid <=> ret.errors = <<>>
            /\ ~Parsable(arg) => ~ret.valid /\ Len(ret.errors) = 1 /\ ret.warnings = <<>>

\* a document whose fonts map holds an entry that is no object, validated to
\* a result that is not valid
C26_Witness ==
    /\ hist # <<>>
    /\ arg.t = "object"
    /\ arg.fonts # None
    /\ arg.fonts[1].t = "map"
    /\ \E i \in 1..Len(arg.fonts[1].entries) : arg.fonts[1].entries[i][2] = JNull
    /\ hist[1].ret.valid = FALSE
    /\ hist[1].ret.errors = << <<"Validation error">> >>

----------------------------------------------------------------------------
(* The validator's command line: main() of validate-sources.py.            *)
(* arg is sys.argv[1:] with what the file system holds under each          *)
(* argument: [kind |-> "file", file |-> f], [kind |-> "dir", entries |-> a *)
(* list of [json |-> whether the name ends in .json, file |-> f]] or       *)
(* [kind |-> "missing"], f being [content |-> a file, deep |-> the errors  *)
(* the schema finds in its font records]. The path of an argument is its   *)
(* position, the path of a directory entry <<position, position in the     *)
(* directory>>. hist holds the validate_file calls and the report.         *)

MaxArgs == 2

\* the arguments: files that are valid, valid with a warning, invalid for
\* the schema, no JSON; directories; a path that does not exist
CliArgs ==
    LET font == [t |-> "font", popularity |-> Some(50), variants |-> Some(JList(<<"v", "v">>))]
        doc(entries) ==
            [t |-> "object", source_info |-> Some(JNull),
             fonts |-> Some([t |-> "map", entries |-> entries])]
        good == [content |-> doc(<< <<"a", font>> >>), deep |-> <<>>]
        empty == [content |-> doc(<<>>), deep |-> <<>>]
        bad == [content |-> doc(<< <<"a", font>> >>),
                deep |-> << <<"fonts -> a", "schema error">> >>]
        text == [content |-> [t |-> "text"], deep |-> <<>>]
        e(json, file) == [json |-> json, file |-> file]
    IN  {[kind |-> "file", file |-> f] : f \in {good, empty, bad, text}}
        \cup {[kind |-> "dir", entries |-> l] :
                 l \in {<<>>, <<e(TRUE, good)>>, <<e(FALSE, text)>>,
                        <<e(TRUE, text), e(TRUE, good)>>,
                        <<e(TRUE, good), e(FALSE, text), e(TRUE, empty)>>}}
        \cup {[kind |-> "missing"]}

\* validate_directory(dir_path) called for argument number position: the
\* results of validate_file for the entries that match *.json
validate_directory(position, entries) ==
    LET matches == SelectSeq([k \in 1..Len(entries) |-> <<k, entries[k]>>],
                             LAMBDA m : m[2].json)
    IN  [k \in 1..Len(matches) |->
            validate_file(<<position, matches[k][1]>>,
                          matches[k][2].file.content, matches[k][2].file.deep)]

\* the results list of main(): what the validate_file calls returned
Results(calls) ==
    LET made == SelectSeq(calls, LAMBDA c : c.fn = "validate_file")
    IN  [k \in 1..Len(made) |-> made[k].ret]

\* print_results(results): the totals and one entry per result, with its
\* errors and warnings
print_results(results) ==
    LET valid_files == Cardinality({k \in 1..Len(results) : results[k].valid})
    IN  [total_files |-> Len(results),
         valid_files |-> valid_files,
         invalid_files |-> Len(results) - valid_files,
         entries |-> [k \in 1..Len(results) |->
                         [status |-> IF results[k].valid THEN "VALID" ELSE "INVALID",
                          file |-> results[k].file,
                          errors |-> results[k].errors,
                          warnings |-> results[k].warnings]]]

InitCli ==
    /\ hist = <<>>
    /\ arg \in StringsUpTo(CliArgs, MaxArgs)
    /\ pc = "main"
    /\ raw_items = <<>>
    /\ idx = 0
    /\ font_map = <<>>
    /\ warnings = <<>>
    /\ source_data = None
    /\ output_file = OldFile
    /\ writes = 0
    /\ exit_code = None

\* the usage message and sys.exit(1) without arguments; otherwise
\* SourceValidator() and the first pass of the loop over sys.argv[1:]
Start ==
    /\ pc = "main"
    /\ IF arg = <<>>
       THEN pc' = "done" /\ exit_code' = Some(1) /\ idx' = idx
       ELSE pc' = "loop" /\ exit_code' = exit_code /\ idx' = 1
    /\ UNCHANGED <<arg, hist, raw_items, font_map, warnings, source_data,
                   output_file, writes>>

\* one pass of the loop for an argument that is a file or a directory
ValidateArg ==
    /\ pc = "loop"
    /\ idx <= Len(arg)
    /\ arg[idx].kind \in {"file", "dir"}
    /\ LET returned ==
               IF arg[idx].kind = "file"
               THEN <<validate_file(<<idx>>, arg[idx].file.content, arg[idx].file.deep)>>
               ELSE validate_directory(idx, arg[idx].entries)
       IN  hist' = hist \o [k \in 1..Len(returned) |->
                               [fn |-> "validate_file", ret |-> returned[k]]]
    /\ idx' = idx + 1
    /\ UNCHANGED <<arg, pc, raw_items, font_map, warnings, source_data,
                   output_file, writes, exit_code>>

\* one pass for an argument that is neither: the error message, sys.exit(1)
RejectArg ==
    /\ pc = "loop"
    /\ idx <= Len(arg)
    /\ arg[idx].kind = "missing"
    /\ exit_code' = Some(1)
    /\ pc' = "done"
    /\ UNCHANGED <<arg, hist, raw_items, idx, font_map, warnings, source_data,
                   output_file, writes>>

\* a main() that ends after print_results whatever the results are
ReportExitZero ==
    /\ pc = "loop"
    /\ idx > Len(arg)
    /\ hist' = Append(hist, [fn |-> "print_results",
                             ret |-> print_results(Results(hist))])
    /\ exit_code' = Some(0)
    /\ pc' = "done"
    /\ UNCHANGED <<arg, raw_items, idx, font_map, warnings, source_data,
                   output_file, writes>>

\* after the loop: print_results(results), then sys.exit(1) if a result is
\* not valid, and the end of main() otherwise
Report ==
    /\ pc = "loop"
    /\ idx > Len(arg)
    /\ hist' = Append(hist, [fn |-> "print_results",
                             ret |-> print_results(Results(hist))])
    /\ exit_code' = IF \E k \in 1..Len(hist) : ~hist[k].ret.valid
                    THEN Some(1) ELSE Some(0)
    /\ pc' = "done"
    /\ UNCHANGED <<arg, raw_items, idx, font_map, warnings, source_data,
                   output_file, writes>>

NextCli == Start \/ ValidateArg \/ RejectArg \/ Report

SpecCli == InitCli /\ [][NextCli]_vars

\* the input files of the run, in the order of the arguments: <<path, file>>
RECURSIVE InputFiles(_, _)
InputFiles(args, position) ==
    IF position > Len(args) THEN <<>>
    ELSE LET a == args[position]
             here == IF a.kind = "file" THEN << <<<<position>>, a.file>> >>
                     ELSE LET ks == SelectSeq([k \in 1..Len(a.entries) |-> k],
                                              LAMBDA k : a.entries[k].json)
                          IN  [n \in 1..Len(ks) |->
                                  <<<<position, ks[n]>>, a.entries[ks[n]].file>>]
         IN  here \o InputFiles(args, position + 1)

\* C21: the validator command line, given one or more file or directory
\* arguments, validates every input file (an invalid file does not stop the
\* validation of the remaining ones), prints a report entry for each of
\* them, and exits with code 0 if and only if every input file is valid,
\* and with code 1 otherwise.
C21_CliExitCode ==
    /\ pc = "done"
    /\ arg # <<>>
    /\ \A k \in 1..Len(arg) : arg[k].kind \in {"file", "dir"}
    => LET inputs == InputFiles(arg, 1)
           results == Results(hist)
           report == hist[Len(hist)]
       IN  /\ Len(results) = Len(inputs)
           /\ \A k \in 1..Len(inputs) :
                  results[k] = validate_file(inputs[k][1], inputs[k][2].content,
                                             inputs[k][2].deep)
           /\ report.fn = "print_results"
           /\ Len(report.ret.entries) = Len(inputs)
           /\ \A k \in 1..Len(inputs) :
                  /\ report.ret.entries[k].file = inputs[k][1]
                  /\ report.ret.entries[k].status =
                         (IF results[k].valid THEN "VALID" ELSE "INVALID")
           /\ exit_code \in {Some(0), Some(1)}
           /\ exit_code = Some(0) <=> \A k \in 1..Len(results) : results[k].valid

\* a finished run over an invalid file followed by a directory with a valid
\* file: both are validated and reported, the exit code is 1
C21_Witness ==
    /\ pc = "done"
    /\ Len(arg) = 2
    /\ arg[1].kind = "file"
    /\ arg[2].kind = "dir"
    /\ Len(Results(hist)) >= 2
    /\ ~Results(hist)[1].valid
    /\ Results(hist)[2].valid
    /\ hist[Len(hist)].fn = "print_results"
    /\ exit_code = Some(1)

----------------------------------------------------------------------------
(* Unsupported Google variant strings.                                     *)

\* "regular", "italic", all digits, or digits followed by "italic"
IsRegularItalicOrDigits(v) ==
    \/ v = Lit.VRegular
    \/ v = Lit.VItalic
    \/ IsDigit(v)
    \/ EndsWith(v, Lit.VItalic) /\ IsDigit(SubSeq(v, 1, Len(v) - 6))

\* C23: in the Google translator an unsupported variant string (one that is
\* not "regular", "italic", all digits, or digits followed by "italic") is
\* skipped on its own: _parse_variant returns None without raising, and the
\* font is still emitted with all of its other variants.
C23_UnsupportedVariantSkippedAlone ==
    arg.kind = "google" /\ hist # <<>> /\ arg.input.family # None =>
        LET x == arg.input
            ret == hist[1].ret
        IN  /\ \A i \in 1..Len(x.variants) :
                   ~IsRegularItalicOrDigits(x.variants[i]) =>
                       parse_variant(x.variants[i], x.family[1], x).tag = "none"
            /\ ret.tag = "font"
            /\ VariantsFollow(ret, SelectSeq(x.variants, IsRegularItalicOrDigits))

----------------------------------------------------------------------------
(* Open Foundry: usable download links.                                    *)

\* the extensions a usable link ends in, as the files key names them
UsableExtensions ==
    {<<"t","t","f">>, <<"o","t","f">>, <<"z","i","p">>,
     <<"t","a","r",".","g","z">>, <<"t","a","r",".","x","z">>}

\* the usable extension the font-download-link of the row ends in, if it is
\* a non-empty string that ends in one
LinkExtension(row) ==
    IF row.download_link = None THEN {}
    ELSE IF row.download_link[1].t # "str" THEN {}
    ELSE {e \in UsableExtensions : EndsWith(row.download_link[1].s, <<".">> \o e)}

\* the rows of the input that have a font-name
NamedRows == SelectSeq(arg.input, LAMBDA r : r.font_name # None /\ r.font_name[1] # <<>>)

\* C24: the Open Foundry translator drops families with no usable download
\* link: every font in its output has at least one variant, rows without a
\* font-name are ignored, and a row yields a variant exactly when its
\* font-download-link is a non-empty string ending in .ttf, .otf, .zip,
\* .tar.gz or .tar.xz, the files key being that extension ("tar.gz" and
\* "tar.xz" for tarballs).
C24_OpenFoundryUsableLinks ==
    arg.kind = "openfoundry" /\ hist # <<>> =>
        /\ \A i \in 1..Len(NamedRows) :
               LET row == NamedRows[i]
                   variant == build_variant(row.font_name[1], row)
               IN  IF LinkExtension(row) = {} THEN variant.tag = "none"
                   ELSE /\ variant.tag = "variant"
                        /\ Len(variant.files) = 1
                        /\ variant.files[1][1] \in LinkExtension(row)
                        /\ variant.files[1][2] = row.download_link[1].s
        /\ hist[1].ret.tag = "ok" =>
               /\ \A f \in EmittedFonts :
                      /\ Len(f.variants) >= 1
                      /\ \A k \in 1..Len(f.variants) :
                             \E i \in 1..Len(NamedRows) :
                                 /\ NamedRows[i].font_name[1] = f.family
                                 /\ f.variants[k] = build_variant(f.family, NamedRows[i])
               /\ \A i \in 1..Len(NamedRows) :
                      (\E f \in EmittedFonts : f.family = NamedRows[i].font_name[1])
                      <=> \E j \in 1..Len(NamedRows) :
                              /\ NamedRows[j].font_name = NamedRows[i].font_name
                              /\ LinkExtension(NamedRows[j]) # {}

\* a translation that emits a font with a "tar.xz" variant, drops a family
\* whose only row has no usable link and ignores a row without font-name
C24_Witness ==
    /\ arg.kind = "openfoundry"
    /\ hist # <<>>
    /\ hist[1].ret.tag = "ok"
    /\ \E f \in EmittedFonts :
           \E k \in 1..Len(f.variants) :
               f.variants[k].files[1][1] = <<"t","a","r",".","x","z">>
    /\ \E i \in 1..Len(NamedRows) :
           \A f \in EmittedFonts : f.family # NamedRows[i].font_name[1]
    /\ Len(NamedRows) < Len(arg.input)

----------------------------------------------------------------------------
(* The count of the source document.                                       *)

\* C25: in the source document returned by translate() of every translator
\* (Google, Font Squirrel, Nerd Fonts, Open Foundry, template),
\* source_info.total_fonts equals the number of entries of the fonts map,
\* whatever items were skipped, dropped or merged.
C25_TotalFontsIsNumberOfEntries ==
    source_data # None =>
        LET fonts == source_data[1].fonts
        IN  /\ source_data[1].total_fonts = Cardinality({fonts[i][1] : i \in 1..Len(fonts)})
            /\ source_data[1].total_fonts = Len(fonts)
            /\ pc = "done" => output_file = source_data[1]

\* a run that has returned a document with fewer fonts than fetched items,
\* one of them skipped with a warning
C25_Witness ==
    /\ source_data # None
    /\ warnings # <<>>
    /\ source_data[1].total_fonts >= 1
    /\ source_data[1].total_fonts + Len(warnings) < Len(raw_items)

----------------------------------------------------------------------------
(* Items whose names slugify to the same id.                               *)

\* what the loop makes of the item at position j on its own: Ok(a fonts
\* dict of one entry), Ok(<<>>) for an item that is dropped, or Raise
Alone(j) == TransformOne(arg.kind, <<>>, raw_items[j], arg.env)

\* the positions of the items that are transformed to a record
Made == {j \in 1..Len(raw_items) : Alone(j).tag = "ok" /\ Alone(j).val # <<>>}

\* two items of different names and the same id, both transformed
Collision ==
    \E j, k \in Made :
        /\ j < k
        /\ Alone(j).val[1][1] = Alone(k).val[1][1]
        /\ Alone(j).val[1][2].name # Alone(k).val[1][2].name

\* C27: when two fetched items have different names that slugify to the
\* same id, no error is raised and the output holds a single entry under
\* that id counted once in total_fonts: in the Google, Font Squirrel and
\* Open Foundry translators it is the record of the last such item (the
\* earlier one is silently replaced), so the number of output fonts equals
\* the number of distinct slugs among the successfully transformed items.
C27_SlugCollisionLastWins ==
    /\ source_data # None =>
           LET fonts == source_data[1].fonts
               slugs == {Alone(j).val[1][1] : j \in Made}
           IN  /\ {fonts[i][1] : i \in 1..Len(fonts)} = slugs
               /\ Len(fonts) = Cardinality(slugs)
               /\ source_data[1].total_fonts = Cardinality(slugs)
               /\ arg.kind \in {"google", "squirrel", "openfoundry"} =>
                      \A i \in 1..Len(fonts) :
                          LET last == CHOOSE j \in Made :
                                          /\ Alone(j).val[1][1] = fonts[i][1]
                                          /\ \A k \in Made :
                                                 Alone(k).val[1][1] = fonts[i][1] => k <= j
                          IN  fonts[i][2] = Alone(last).val[1][2]
    /\ pc = "done" /\ idx > 0 /\ (\A j \in 1..Len(raw_items) : Alone(j).tag = "ok") =>
           /\ exit_code = Some(0)
           /\ source_data # None

\* a finished Font Squirrel run over two items of different names and the
\* same id: one font in the output
C27_Witness ==
    /\ arg.kind = "squirrel"
    /\ pc = "done"
    /\ Collision
    /\ Len(raw_items) = 2
    /\ source_data # None
    /\ source_data[1].total_fonts = 1

----------------------------------------------------------------------------
(* Nerd Fonts: the keys of font_patterns.                                  *)

\* the positions in font_patterns of the keys K the asset K.zip is named by
KeysOf(asset) ==
    {i \in 1..Len(font_patterns) :
        asset.name = Some(font_patterns[i][1] \o Lit.ExtZip)}

\* the asset is an archive: its name ends in .zip or .tar.xz
IsArchive(asset) ==
    /\ asset.name # None
    /\ EndsWith(asset.name[1], Lit.ExtZip) \/ EndsWith(asset.name[1], Lit.ExtTarXz)

\* C28: in the Nerd Fonts translator, for every key K of the font_patterns
\* table an asset named K + ".zip" is assigned the display name
\* font_patterns[K], so distinct table keys with distinct display names
\* produce distinct font entries; assets not ending in .zip or .tar.xz are
\* skipped, and all assets resolving to one font id accumulate as variants
\* of a single font record that has at least one variant.
C28_PatternKeysResolve ==
    arg.kind = "nerd" /\ hist # <<>> =>
        LET assets == arg.input
            ret == hist[1].ret
        IN  /\ \A a \in 1..Len(assets) : \A i \in KeysOf(assets[a]) :
                   extract_font_name(assets[a].name[1]) = Some(font_patterns[i][2])
            /\ ret.tag = "ok" =>
                   /\ \A a, b \in 1..Len(assets) :
                          \A i \in KeysOf(assets[a]) : \A j \in KeysOf(assets[b]) :
                              font_patterns[i][2] # font_patterns[j][2] =>
                                  \E m, n \in 1..Len(ret.val) :
                                      /\ m # n
                                      /\ ret.val[m][2].name = font_patterns[i][2]
                                      /\ ret.val[n][2].name = font_patterns[j][2]
                   /\ \A m, n \in 1..Len(ret.val) : m # n => ret.val[m][1] # ret.val[n][1]
                   /\ \A m \in 1..Len(ret.val) : Len(ret.val[m][2].variants) >= 1
                   /\ \A a \in 1..Len(assets) :
                          ~IsArchive(assets[a]) =>
                              \A m \in 1..Len(ret.val) :
                                  \A v \in 1..Len(ret.val[m][2].variants) :
                                      ret.val[m][2].variants[v].files[1][2]
                                          # assets[a].browser_download_url[1]
                                      \/ \E b \in 1..Len(assets) :
                                             /\ IsArchive(assets[b])
                                             /\ assets[b].browser_download_url
                                                    = assets[a].browser_download_url

----------------------------------------------------------------------------
(* Font Squirrel: one variant per font, at most limit items per run.       *)

\* the item has a non-empty family_name and a non-empty family_urlname
HasNameAndUrlname(item) ==
    /\ item.family_name # None /\ item.family_name[1] # <<>>
    /\ item.family_urlname # None /\ item.family_urlname[1] # <<>>

\* C29: every font emitted by the Font Squirrel translator has exactly one
\* variant, named "{family_name} Regular" with weight 400, style normal and
\* a single non-empty "ttf" URL built from family_urlname, regardless of the
\* item's other fields; items lacking family_name or family_urlname are
\* skipped, and at most 50 items are processed per run.
C29_SquirrelOneRegularVariant ==
    arg.kind = "squirrel" =>
        /\ \A i \in 1..Len(font_map) :
               LET f == font_map[i][2]
               IN  /\ Len(f.variants) = 1
                   /\ f.variants[1].name = f.name \o <<" ","R","e","g","u","l","a","r">>
                   /\ f.variants[1].weight = 400
                   /\ f.variants[1].style = "normal"
                   /\ Len(f.variants[1].files) = 1
                   /\ f.variants[1].files[1][1] = <<"t","t","f">>
                   /\ f.variants[1].files[1][2] # <<>>
                   /\ \E j \in 1..Len(raw_items) :
                          /\ j < idx
                          /\ HasNameAndUrlname(raw_items[j])
                          /\ raw_items[j].family_name[1] = f.name
                          /\ f.variants[1].files[1][2] =
                                 Lit.FontfacekitUrl \o raw_items[j].family_urlname[1]
        /\ \A j \in 1..Len(raw_items) :
               ~HasNameAndUrlname(raw_items[j]) =>
                   /\ \A k \in 1..Len(warnings) : warnings[k] # j
                   /\ Alone(j) = Ok(<<>>)
        /\ Len(raw_items) <= 50
        /\ idx <= 51
        /\ idx > 0 => raw_items = SubSeq(arg.response.val.elems, 1, Len(raw_items))
        /\ idx > 0 /\ Len(arg.response.val.elems) <= 50 =>
               raw_items = arg.response.val.elems
        /\ source_data # None => source_data[1].fonts = font_map

\* a finished Font Squirrel run over a response of 51 items: 50 are
\* processed, and the font of the last item is not in the output
C29_Witness ==
    /\ arg.kind = "squirrel"
    /\ pc = "done"
    /\ arg.response.tag = "ok"
    /\ arg.response.val.t = "list"
    /\ Len(arg.response.val.elems) = 51
    /\ Len(raw_items) = 50
    /\ source_data # None
    /\ source_data[1].total_fonts = 1
    /\ source_data[1].fonts[1][2].name = Sample.TestFontHyphen

----------------------------------------------------------------------------
(* normalize_category applied to its own result.                           *)

\* C30: normalize_category is idempotent,
\* normalize_category(normalize_category(x)) = normalize_category(x) for
\* every string x, and its case-insensitive matching step never changes the
\* result: every input that matches a table key case-insensitively already
\* matches it exactly after title-casing.
C30_NormalizeCategoryIdempotent ==
    Len(hist) = 1 /\ hist[1].fn = "_normalize_category" =>
        /\ normalize_category(hist[1].ret) = hist[1].ret
        /\ ~IsBlank(arg) =>
               ((\E k \in MappingKeys : Lower(k) = Lower(Normalized(arg)))
                    => Normalized(arg) \in MappingKeys)

\* the second half of C30 alone: the case-insensitive loop finds no key
\* that the exact lookup missed
C30_CaseInsensitiveStepIsDead ==
    Len(hist) = 1 /\ hist[1].fn = "_normalize_category" /\ ~IsBlank(arg) =>
        ((\E k \in MappingKeys : Lower(k) = Lower(Normalized(arg)))
             => Normalized(arg) \in MappingKeys)

====
